---- MODULE Spec2Model ----
(***************************************************************************)
(* AGEI call-analysis webhook (src/main.py, src/gunicorn.conf.py).         *)
(*                                                                         *)
(* Two specifications share this module:                                   *)
(*   Spec       the job endpoints /analyze and /analyze-faq, one step per  *)
(*              external call, processed one job at a time by the single   *)
(*              sync gunicorn worker;                                      *)
(*   SpecParse  the field parser parse_enhanced_analysis applied to every  *)
(*              extractor text built from at most MaxSegs segments.        *)
(*                                                                         *)
(* Texts are sequences of tokens.  A token is one character ("*", ":",     *)
(* " ", "[", "]", "x") or a whole field name in upper or lower case.       *)
(* Cell values, messages and links are sequences of tokens as well, so     *)
(* that every value of the datastore has one type.                         *)
(*                                                                         *)
(* The local file system is taken to be reliable (creating, writing and    *)
(* removing a temporary file succeeds); every external collaborator        *)
(* (HTTP retrieval, ffmpeg, Whisper, the chat model, Drive, Sheets, the    *)
(* service-account credentials) may fail at every call.  A failed          *)
(* datastore call changes nothing in the datastore.                        *)
(***************************************************************************)
EXTENDS Integers, Sequences, FiniteSets, TLC

\* ------------------------------------------------------------------ bounds

\* Largest number of segments an extractor text of SpecParse is built from.
MaxSegs == 4

\* ------------------------------------------------------- the field schema

\* The keys of workflow_fields, in the order of the dict literal.
WorkflowFieldNames ==
    << "INITIAL_QUESTIONS", "INITIAL_RESPONSES", "DEMOGRAPHICS",
       "SCHEDULING_QUESTIONS", "SCHEDULING_RESPONSES", "FINAL_STEPS",
       "SUMMARY" >>

\* The keys of decision_fields, in the order of the dict literal.
DecisionFieldNames ==
    << "DECISION_SEQUENCE", "PATIENT_TYPE_DETERMINATION",
       "SYMPTOM_ASSESSMENT", "PROVIDER_SELECTION_LOGIC",
       "APPOINTMENT_TYPE_LOGIC", "ROUTING_RULES", "DECISION_BRANCHES" >>

Range(s) == { s[i] : i \in 1..Len(s) }

WorkflowKeys == Range(WorkflowFieldNames)
DecisionKeys == Range(DecisionFieldNames)
AllKeys == WorkflowKeys \cup DecisionKeys

\* The empty string.
Empty == << >>

\* A dict literal that lacks its last key (a field dropped from the schema).
workflow_defaults_short ==
    [ f \in WorkflowKeys \ {"SUMMARY"} |-> Empty ]

\* workflow_fields = {"INITIAL_QUESTIONS": "", ..., "SUMMARY": ""}
workflow_defaults == [ f \in WorkflowKeys |-> Empty ]

\* decision_fields = {"DECISION_SEQUENCE": "", ..., "DECISION_BRANCHES": ""}
decision_defaults == [ f \in DecisionKeys |-> Empty ]

\* ------------------------------------------------------ regular expressions

\* \s : the white-space class.
IsSpace(c) == c = " "

\* re.IGNORECASE on the field names that occur in lower case in the texts.
Upper(c) ==
    CASE c = "initial_questions" -> "INITIAL_QUESTIONS"
      [] c = "decision_sequence" -> "DECISION_SEQUENCE"
      [] OTHER -> c

\* The literal \*\* at position i.
StarsAt(text, i) ==
    /\ i >= 1
    /\ i + 1 <= Len(text)
    /\ text[i] = "*"
    /\ text[i + 1] = "*"

\* \*\*{re.escape(field_name)}:\*\* at position i, ignoring case.
MarkerAt(text, i, name) ==
    /\ StarsAt(text, i)
    /\ i + 5 <= Len(text)
    /\ Upper(text[i + 2]) = name
    /\ text[i + 3] = ":"
    /\ StarsAt(text, i + 4)

\* Number of white-space tokens from position p on.
RECURSIVE SpaceRun(_, _)
SpaceRun(text, p) ==
    IF p <= Len(text) /\ IsSpace(text[p]) THEN 1 + SpaceRun(text, p + 1) ELSE 0

\* (.+?)(?=\*\*|\Z) from position s: the shortest non-empty run that is
\* followed by ** or by the end of the text; the position of its last token.
RECURSIVE LazyEnd(_, _)
LazyEnd(text, e) ==
    IF e >= Len(text) \/ StarsAt(text, e + 1) THEN e ELSE LazyEnd(text, e + 1)

\* The pattern matched with its marker at position i: \s* is greedy and gives
\* back one token only when it has swallowed the whole rest of the text.
\* No match when nothing follows the marker (.+? needs one token).
MatchAt(text, i, name) ==
    MarkerAt(text, i, name) /\ i + 6 <= Len(text)

\* group(1) of the match whose marker is at position i.
GroupAt(text, i) ==
    LET p == i + 6
        r == Len(text) - p + 1
        w == SpaceRun(text, p)
        k == IF w < r THEN w ELSE r - 1
        s == p + k
    IN  SubSeq(text, s, LazyEnd(text, s))

\* re.search: the leftmost position at which the pattern matches, 0 if none.
SearchPos(text, name) ==
    LET hits == { i \in 1..Len(text) : MatchAt(text, i, name) }
    IN  IF hits = {} THEN 0
        ELSE CHOOSE i \in hits : \A h \in hits : i <= h

\* str.strip()
RECURSIVE LStrip(_)
LStrip(s) == IF s # << >> /\ IsSpace(Head(s)) THEN LStrip(Tail(s)) ELSE s

RECURSIVE RStrip(_)
RStrip(s) ==
    IF s # << >> /\ IsSpace(s[Len(s)])
    THEN RStrip(SubSeq(s, 1, Len(s) - 1))
    ELSE s

Strip(s) == RStrip(LStrip(s))

\* re.sub(r'^\[|\]$', '', extracted): a leading "[" is removed, and a
\* trailing "]" is removed, each on its own.
sub_brackets(s) ==
    LET a == IF s # << >> /\ s[1] = "[" THEN Tail(s) ELSE s
    IN  IF a # << >> /\ a[Len(a)] = "]" THEN SubSeq(a, 1, Len(a) - 1) ELSE a

\* The value the loop stores in all_fields[field_name].
extracted_value(text, name) ==
    LET i == SearchPos(text, name)
    IN  IF i = 0 THEN Empty
        ELSE sub_brackets(Strip(GroupAt(text, i)))

\* all_fields after the loop: a fresh dict built from copies of the two
\* literals, updated for every field whose pattern matched.
all_fields_of(text) == [ f \in AllKeys |-> extracted_value(text, f) ]

\* parse_enhanced_analysis: `return workflow_fields, decision_fields`.  The
\* loop writes into all_fields, a separate dict object, so the two dicts
\* returned are the untouched literals.
parse_enhanced_analysis(text) ==
    << workflow_defaults, decision_defaults >>

\* ------------------------------------------------------------ FAQ parsing

\* An extractor response in FAQ mode is a sequence of tokens: prose, a stray
\* opening or closing brace, or the text of one complete JSON object (which
\* starts with "{" and ends with "}").  The object has an optional FAQ_Items
\* member (absent, a list, or null) and an optional Notes string.  A list
\* entry is an object with optional Topic and FAQ_Text strings (a missing
\* key and an empty string both read as the empty sequence, as .get(k, '')
\* followed by a truth test treats them alike), or NonObject (a JSON string
\* or number in the list).
FaqItem(topic, text) == [ Topic |-> topic, FAQ_Text |-> text ]

NonObject == [ Topic |-> <<"nonobject">>, FAQ_Text |-> <<"nonobject">> ]

FaqObject(has_items, items, notes) ==
    [ has_items |-> has_items, items |-> items, notes |-> notes ]

\* json.loads("{}")
EmptyObject == FaqObject("absent", << >>, Empty)

Prose == [ t |-> "x", v |-> EmptyObject ]

OpenBrace == [ t |-> "{", v |-> EmptyObject ]

CloseBrace == [ t |-> "}", v |-> EmptyObject ]

ObjectText(v) == [ t |-> "object", v |-> v ]

\* re.search(r'\{.*\}', text, re.DOTALL).group(0): from the first "{" to
\* the last "}" after it; the empty sequence stands for "no match".
brace_span(text) ==
    LET opens  == { i \in 1..Len(text) : text[i].t \in {"{", "object"} }
    IN  IF opens = {} THEN << >>
        ELSE LET p == CHOOSE i \in opens : \A k \in opens : i <= k
                 closes == { i \in p..Len(text) :
                                \/ text[i].t = "object"
                                \/ text[i].t = "}" /\ i > p }
             IN  IF closes = {} THEN << >>
                 ELSE LET q == CHOOSE i \in closes : \A k \in closes : i >= k
                      IN  SubSeq(text, p, q)

\* json.loads(json_str): the span decodes when it is exactly one object (or
\* the two braces "{}"); anything else raises JSONDecodeError.
json_loads(span) ==
    IF Len(span) = 1 /\ span[1].t = "object"
    THEN [ ok |-> TRUE, value |-> span[1].v ]
    ELSE IF span = << OpenBrace, CloseBrace >>
    THEN [ ok |-> TRUE, value |-> EmptyObject ]
    ELSE [ ok |-> FALSE, value |-> EmptyObject ]

\* faq_data.get('FAQ_Items', [])
get_faq_items(faq_data) ==
    IF faq_data.has_items = "absent" THEN << >> ELSE faq_data.items

\* The for loop raises when FAQ_Items is null (not iterable) or an entry
\* has no .get method.
loop_raises(faq_data) ==
    \/ faq_data.has_items = "null"
    \/ \E i \in 1..Len(get_faq_items(faq_data)) :
          get_faq_items(faq_data)[i] = NonObject

\* f"<bullet> {topic}: {text}", the bullet being U+2022
format_item(item) == << "bullet " >> \o item.Topic \o << ": " >> \o item.FAQ_Text

\* A loop that renders every entry, complete or not.
RECURSIVE formatted_items_unfiltered(_)
formatted_items_unfiltered(items) ==
    IF items = << >> THEN << >>
    ELSE << format_item(Head(items)) >> \o formatted_items_unfiltered(Tail(items))

\* formatted_items: the items with a non-empty Topic and FAQ_Text, in order.
RECURSIVE formatted_items(_)
formatted_items(items) ==
    IF items = << >> THEN << >>
    ELSE LET item == Head(items)
             rest == formatted_items(Tail(items))
         IN  IF item.Topic # Empty /\ item.FAQ_Text # Empty
             THEN << format_item(item) >> \o rest
             ELSE rest

\* "\n".join(lines)
RECURSIVE join_lines(_)
join_lines(lines) ==
    IF lines = << >> THEN Empty
    ELSE IF Len(lines) = 1 THEN Head(lines)
    ELSE Head(lines) \o << "\n" >> \o join_lines(Tail(lines))

NoFaqSentence == << "No FAQ items mentioned in this call." >>

\* A rendering without the fallback sentence.
render_items_plain(lines) == join_lines(lines)

\* "\n".join(formatted_items) if formatted_items else "No FAQ items ..."
render_items(lines) ==
    IF lines # << >> THEN join_lines(lines) ELSE NoFaqSentence

faq_result(items, total, notes) ==
    [ FAQ_ITEMS |-> items, TOTAL_ITEMS |-> total, NOTES |-> notes ]

\* A parser whose three fallback branches return an empty mapping.
parse_faq_analysis_no_fallback(text) ==
    LET span == brace_span(text)
    IN  IF span = << >> \/ ~json_loads(span).ok
           \/ loop_raises(json_loads(span).value)
        THEN faq_result(Empty, Empty, Empty)
        ELSE LET lines == formatted_items(get_faq_items(json_loads(span).value))
             IN  faq_result(render_items(lines), << ToString(Len(lines)) >>,
                            json_loads(span).value.notes)

\* parse_faq_analysis (RAW_JSON, a copy of the input, is left out).
parse_faq_analysis(text) ==
    LET span == brace_span(text)
    IN  IF span = << >>
        THEN faq_result(NoFaqSentence, << "0" >>,
                        << "Could not parse response" >>)
        ELSE IF ~json_loads(span).ok
        THEN faq_result(<< "Error parsing FAQ analysis" >>, << "0" >>,
                        << "JSON parsing error: ", "cause" >>)
        ELSE IF loop_raises(json_loads(span).value)
        THEN faq_result(<< "Error processing FAQ analysis" >>, << "0" >>,
                        << "Processing error: ", "cause" >>)
        ELSE LET lines == formatted_items(get_faq_items(json_loads(span).value))
             IN  faq_result(render_items(lines), << ToString(Len(lines)) >>,
                            json_loads(span).value.notes)

\* ------------------------------------------------------------ the job state

VARIABLES
    req,            \* per job: the endpoint and the JSON body of the request
    job,            \* per job: the handler's position and local variables
    trace,          \* per job: the external calls made so far, with outcome
    files,          \* the temporary files that exist on the local disk
    drive,          \* the transcripts uploaded to the archive folder
    sheet_exists,   \* whether the spreadsheet has a sheet titled sheet_name
    columnCount,    \* gridProperties.columnCount of that sheet
    cells,          \* the cells of that sheet, by <<row, column>>
    before,         \* per job: the cells when the job was submitted
    analysis_text,  \* SpecParse: the extractor text handed to the parser
    parsed,         \* SpecParse: what parse_enhanced_analysis returned
    parse_pc,       \* SpecParse: "input" before the call, "parsed" after
    pat,            \* the cross-call invocation: position and local variables
    tabs,           \* the two dedicated sheets: existence and rows
    plog            \* the cross-call invocations that have returned

jobVars == << req, job, trace, files, drive, sheet_exists, columnCount,
              cells, before >>
parseVars == << analysis_text, parsed, parse_pc >>
patVars == << pat, tabs, plog >>
vars == << req, job, trace, files, drive, sheet_exists, columnCount, cells,
           before, analysis_text, parsed, parse_pc, pat, tabs, plog >>

\* Number of jobs submitted, one after the other, in a behaviour of Spec.
MaxJobs == 1

JobIds == 1..MaxJobs

\* The rows the jobs address.
RowNumbers == {2, 3}

\* COLUMNS: the column letters used by the handlers, as column numbers.
ColB == 2
ColE == 5
ColF == 6
ColG == 7
ColN == 14
ColO == 15
ColP == 16
ColV == 22

\* `if current_columns < 22`: columns A through V.
NeededColumns == 22

Columns == 1..ColV

\* required_fields, in the order the handler checks them.
required_fields ==
    << "file_url", "file_token", "sheet_id", "sheet_name", "row_number",
       "transcript_folder_id", "file_name" >>

RequiredKeys == Range(required_fields)

\* The keys the error handler reads from data.
CoordinateKeys == {"sheet_name", "row_number", "sheet_id"}

\* The bodies a request can carry: request.json raises ("nojson"), gives a
\* falsy value ("null": None, {}, [], 0), a truthy value that is no dict
\* ("notdict"), or a non-empty dict with the keys `keys` and the value of
\* data.get('test') == True.
KeySets ==
    { RequiredKeys }
    \cup { RequiredKeys \ {k} : k \in RequiredKeys }
    \cup { RequiredKeys \ {"file_url", "sheet_name"} }

Requests ==
    [ endpoint : {"analyze", "faq"},
      json : {"nojson", "null", "notdict"},
      keys : { {} },
      test : {FALSE},
      row : {2} ]
    \cup
    [ endpoint : {"analyze", "faq"},
      json : {"object"},
      keys : KeySets \ { RequiredKeys },
      test : {FALSE},
      row : {2} ]
    \cup
    [ endpoint : {"analyze", "faq"},
      json : {"object"},
      keys : { RequiredKeys },
      test : {FALSE},
      row : RowNumbers ]
    \cup
    [ endpoint : {"analyze", "faq"},
      json : {"object"},
      keys : { RequiredKeys, {} },
      test : {TRUE},
      row : {2} ]

NoRequest ==
    [ endpoint |-> "none", json |-> "nojson", keys |-> {}, test |-> FALSE,
      row |-> 2 ]

\* bool(data)
Truthy(r) == r.json \in {"notdict", "object"}

\* A guard that only asks whether data is bound.
attempts_marker_if_bound(r) == r.json # "nojson"

\* `if 'data' in locals() and data`: the except block attempts the marker
\* write only when request.json returned and what it returned is truthy.
attempts_marker(r) == r.json # "nojson" /\ Truthy(r)

\* What the extractor can answer in enhanced mode.
SampleTexts ==
    { << "x" >>,
      << "*", "*", "INITIAL_QUESTIONS", ":", "*", "*", " ", "[", "x", "]",
         "*", "*", "decision_sequence", ":", "*", "*", "x" >> }

\* What the extractor can answer in FAQ mode.
SampleFaq ==
    { << Prose >>,
      << OpenBrace, Prose, CloseBrace >>,
      << ObjectText(FaqObject("list", << >>, << "n" >>)) >>,
      << ObjectText(FaqObject("list", << NonObject >>, << "n" >>)) >>,
      << Prose,
         ObjectText(FaqObject("list", << FaqItem(<< "t" >>, << "x" >>) >>,
                              << "n" >>)) >> }

NoFields == [ unset |-> Empty ]

NoResponse ==
    [ kind |-> "none", code |-> 0, message |-> Empty,
      transcript_link |-> Empty, fields |-> << NoFields >> ]

\* jsonify({"status": "success", "transcript_link": ..., ...fields}), 200
SuccessResponse(link, fields) ==
    [ kind |-> "success", code |-> 200, message |-> Empty,
      transcript_link |-> link, fields |-> fields ]

\* jsonify({"status": "success", "message": "Webhook is working"}), 200
TestResponse ==
    [ kind |-> "success", code |-> 200, message |-> << "Webhook is working" >>,
      transcript_link |-> Empty, fields |-> << NoFields >> ]

\* An error body returned with the default status code.
ErrorResponse_default_code(msg) ==
    [ kind |-> "error", code |-> 200, message |-> msg,
      transcript_link |-> Empty, fields |-> << NoFields >> ]

\* jsonify({"error": error_msg}), 500
ErrorResponse(msg) ==
    [ kind |-> "error", code |-> 500, message |-> msg,
      transcript_link |-> Empty, fields |-> << NoFields >> ]

\* The locals of a handler as it is entered: the four paths are None.
NewJob ==
    [ pc |-> "idle",
      mp3_path |-> FALSE, left_path |-> FALSE, right_path |-> FALSE,
      txt_path |-> FALSE,
      analysis |-> Empty,
      fields |-> << NoFields >>,
      transcript_link |-> Empty,
      current_columns |-> 0,
      error_msg |-> Empty,
      response |-> NoResponse ]

\* Path variables with one fixed name for the transcript file.
File_fixed_transcript(j, which) ==
    IF which = "txt" THEN << 0, "txt" >> ELSE << j, which >>

\* The file a path variable of job j names.
File(j, which) == << j, which >>

\* The link Drive returns for the transcript of job j.
Link(j) == << "webViewLink", ToString(j) >>

\* ------------------------------------------------ cross-call analysis data

\* Number of /analyze-patterns and /analyze-decision-tree requests in a
\* behaviour of SpecPatterns.
MaxInvocations == 2

PatEndpoints == { "patterns", "tree" }

\* The sheet an endpoint appends to.
Title(endpoint) ==
    IF endpoint = "patterns" THEN "Patterns Analysis" ELSE "Decision Tree Analysis"

Titles == { Title(e) : e \in PatEndpoints }

\* The first cell of a header row, up to the timestamp.
HeaderLabel(endpoint) ==
    IF endpoint = "patterns" THEN "Pattern Analysis - " ELSE "Decision Tree Analysis - "

\* The second cell of a header row, up to the row numbers.
CallsLabel(endpoint) ==
    IF endpoint = "patterns" THEN "Calls Analyzed: " ELSE "Based on calls: "

\* A cross-call request body: no usable JSON, an object without calls_data,
\* or an object with calls_data and perhaps a sheet_id.  A call is given by
\* its row_number, 0 standing for a call without that key.
NoRowNumber == 0

PatBodies ==
    [ json : {"null", "no_calls"}, calls : {<< >>}, sheet_id : {FALSE} ]
        \cup [ json : {"calls"}, calls : { << 2, 3 >>, << 2, NoRowNumber >> },
               sheet_id : BOOLEAN ]

\* What the extractor may answer: message.content
SampleSummaries == { << >>, << "a", "\n" >>, << "a", "\n", "b" >> }

NoPatResponse ==
    [ kind |-> "none", code |-> 0, message |-> Empty, calls_analyzed |-> 0,
      analysis |-> Empty ]

\* jsonify({"status": "success", "calls_analyzed": ..., "pattern_analysis": ...})
PatSuccess(n, analysis) ==
    [ kind |-> "success", code |-> 200, message |-> Empty,
      calls_analyzed |-> n, analysis |-> analysis ]

\* jsonify({"error": error_msg}), 500
PatError(msg) ==
    [ kind |-> "error", code |-> 500, message |-> msg, calls_analyzed |-> 0,
      analysis |-> Empty ]

\* The locals of a cross-call handler as it is entered.
NewPat ==
    [ pc |-> "idle", endpoint |-> "patterns",
      body |-> [ json |-> "null", calls |-> << >>, sheet_id |-> FALSE ],
      analysis |-> Empty, saved |-> FALSE, rows_before |-> << >>,
      response |-> NoPatResponse ]

\* A row some earlier run left in a dedicated sheet.
OldRow == << << "old" >> >>

\* The dedicated sheets before the first cross-call request: both there
\* with a row of an earlier run, or neither there.
InitialTabs(e) ==
    [ t \in Titles |->
        [ exists |-> e, rows |-> IF e THEN << OldRow >> ELSE << >> ] ]

\* No cross-call request has been made.
PatIdle ==
    /\ pat = NewPat
    /\ tabs = InitialTabs(TRUE)
    /\ plog = << >>

\* What every cell holds before the first job: content written earlier.
Old == << "old" >>

Init ==
    /\ req = [ j \in JobIds |-> NoRequest ]
    /\ job = [ j \in JobIds |-> NewJob ]
    /\ trace = [ j \in JobIds |-> << >> ]
    /\ files = {}
    /\ drive = << >>
    /\ sheet_exists \in BOOLEAN
    /\ columnCount \in {15, 22, 26}
    /\ cells = [ rc \in RowNumbers \X Columns |-> Old ]
    /\ before = [ j \in JobIds |-> cells ]
    /\ analysis_text = Empty
    /\ parsed = << workflow_defaults, decision_defaults >>
    /\ parse_pc = "idle"
    /\ PatIdle

\* --------------------------------------------------------------- helpers

\* One external call in the history of a job, and whether it succeeded.
Ev(op, ok) == [ op |-> op, ok |-> ok ]

Log(j, op, ok) == trace' = [ trace EXCEPT ![j] = Append(@, Ev(op, ok)) ]

\* An exception leaves the try block: `except Exception as e` binds
\* error_msg = str(e).
Raise(j, msg) ==
    job' = [ job EXCEPT ![j].pc = "handler", ![j].error_msg = msg ]

\* A job whose handler has not returned yet.
Active(j) == job[j].pc \notin {"idle", "done"}

\* values().update(range=<sheet>!<c1><row>:<c2><row>, body={"values": [vals]}):
\* the cells of `row` from column c1 on take the values, in order.
UpdateRange(cs, row, c1, vals) ==
    [ rc \in DOMAIN cs |->
        IF rc[1] = row /\ rc[2] >= c1 /\ rc[2] < c1 + Len(vals)
        THEN vals[rc[2] - c1 + 1]
        ELSE cs[rc] ]

\* The Sheets API accepts a range only inside the grid of an existing sheet.
RangeInGrid(lastColumn) == sheet_exists /\ lastColumn <= columnCount

\* ------------------------------------------ entering the handler (both modes)

\* The sync worker (workers = 1) takes the next request once the previous
\* handler has returned.
Submit(j, r) ==
    /\ job[j].pc = "idle"
    /\ \A k \in JobIds : ~Active(k)
    /\ \A k \in JobIds : k < j => job[k].pc = "done"
    /\ req' = [ req EXCEPT ![j] = r ]
    /\ job' = [ job EXCEPT ![j].pc = "receive" ]
    /\ before' = [ before EXCEPT ![j] = cells ]
    /\ UNCHANGED << trace, files, drive, sheet_exists, columnCount, cells,
                    parseVars, patVars >>

\* The first required field that data lacks, "" when it has them all.
FirstMissing(keys) ==
    LET miss == { i \in 1..Len(required_fields) : required_fields[i] \notin keys }
    IN  IF miss = {} THEN ""
        ELSE required_fields[CHOOSE i \in miss : \A m \in miss : i <= m]

\* A handler that checks only that a body was received.
Receive_unvalidated(j) ==
    /\ job[j].pc = "receive"
    /\ LET r == req[j] IN
       IF r.json = "nojson"
       THEN Raise(j, << "request.json failed" >>)
       ELSE IF r.json = "notdict"
       THEN Raise(j, << "object has no attribute 'get'" >>)
       ELSE IF r.json = "object" /\ r.test
       THEN job' = [ job EXCEPT ![j].pc = "cleanup",
                                ![j].response = TestResponse ]
       ELSE IF r.json = "null"
       THEN Raise(j, << "No JSON data received" >>)
       ELSE job' = [ job EXCEPT ![j].pc = "download" ]
    /\ UNCHANGED << req, trace, files, drive, sheet_exists, columnCount,
                    cells, before, parseVars, patVars >>

\* data = request.json; the test shortcut; the validation of required_fields.
Receive(j) ==
    /\ job[j].pc = "receive"
    /\ LET r == req[j] IN
       IF r.json = "nojson"
       THEN Raise(j, << "request.json failed" >>)
       ELSE IF r.json = "notdict"
       THEN Raise(j, << "object has no attribute 'get'" >>)
       ELSE IF r.json = "object" /\ r.test
       THEN job' = [ job EXCEPT ![j].pc = "cleanup",
                                ![j].response = TestResponse ]
       ELSE IF r.json = "null"
       THEN Raise(j, << "No JSON data received" >>)
       ELSE IF FirstMissing(r.keys) # ""
       THEN Raise(j, << "Missing required field: ", FirstMissing(r.keys) >>)
       ELSE job' = [ job EXCEPT ![j].pc = "download" ]
    /\ UNCHANGED << req, trace, files, drive, sheet_exists, columnCount,
                    cells, before, parseVars, patVars >>

\* ------------------------------------------------------ stages 1 to 4

\* mp3_path = download_file(...): the GET answers 2xx and the bytes are
\* written to a new temporary file.
DownloadOk(j) ==
    /\ job[j].pc = "download"
    /\ files' = files \cup { File(j, "mp3") }
    /\ job' = [ job EXCEPT ![j].pc = "split", ![j].mp3_path = TRUE ]
    /\ Log(j, "download", TRUE)
    /\ UNCHANGED << req, drive, sheet_exists, columnCount, cells, before,
                    parseVars, patVars >>

\* A retriever that creates its temporary file before the GET and raises
\* without removing it.
DownloadFail_leaves_file(j) ==
    /\ job[j].pc = "download"
    /\ files' = files \cup { File(j, "mp3") }
    /\ Raise(j, << "File download failed: ", "cause" >>)
    /\ Log(j, "download", FALSE)
    /\ UNCHANGED << req, drive, sheet_exists, columnCount, cells, before,
                    parseVars, patVars >>

\* download_file: requests raises before any file is created.
DownloadFail(j) ==
    /\ job[j].pc = "download"
    /\ Raise(j, << "File download failed: ", "cause" >>)
    /\ Log(j, "download", FALSE)
    /\ UNCHANGED << req, files, drive, sheet_exists, columnCount, cells,
                    before, parseVars, patVars >>

\* A handler that passes the split on to the patient channel alone.
SplitOk_patient_only(j) ==
    /\ job[j].pc = "split"
    /\ files' = files \cup { File(j, "left"), File(j, "right") }
    /\ job' = [ job EXCEPT ![j].pc = "transcribe_right",
                           ![j].left_path = TRUE, ![j].right_path = TRUE ]
    /\ Log(j, "split", TRUE)
    /\ UNCHANGED << req, drive, sheet_exists, columnCount, cells, before,
                    parseVars, patVars >>

\* left_path, right_path = split_channels(mp3_path): ffmpeg exits 0.
SplitOk(j) ==
    /\ job[j].pc = "split"
    /\ files' = files \cup { File(j, "left"), File(j, "right") }
    /\ job' = [ job EXCEPT ![j].pc = "transcribe_left",
                           ![j].left_path = TRUE, ![j].right_path = TRUE ]
    /\ Log(j, "split", TRUE)
    /\ UNCHANGED << req, drive, sheet_exists, columnCount, cells, before,
                    parseVars, patVars >>

\* split_channels: ffmpeg exits nonzero, having created `made` of its two
\* output files.  split_channels raises, so the tuple assignment of the
\* handler never happens: left_path and right_path stay None.
SplitFail(j, made) ==
    /\ job[j].pc = "split"
    /\ files' = files \cup { File(j, w) : w \in made }
    /\ Raise(j, << "Audio processing failed: ", "stderr" >>)
    /\ Log(j, "split", FALSE)
    /\ UNCHANGED << req, drive, sheet_exists, columnCount, cells, before,
                    parseVars, patVars >>

\* A transcriber call that is repeated until it succeeds.
Transcribe_retry(j, ok) ==
    /\ job[j].pc \in {"transcribe_left", "transcribe_right", "transcribe_retry"}
    /\ IF job[j].pc = "transcribe_retry"
       THEN /\ job' = [ job EXCEPT ![j].pc = "transcribe_left" ]
            /\ UNCHANGED trace
       ELSE IF ok
       THEN /\ job' = [ job EXCEPT ![j].pc =
                          IF @ = "transcribe_left" THEN "transcribe_right"
                          ELSE "reconstruct" ]
            /\ Log(j, job[j].pc, ok)
       ELSE /\ job' = [ job EXCEPT ![j].pc = "transcribe_retry" ]
            /\ UNCHANGED trace
    /\ UNCHANGED << req, files, drive, sheet_exists, columnCount, cells,
                    before, parseVars, patVars >>

\* A transcriber whose failure is swallowed: the handler goes on with an
\* empty transcript.
Transcribe_swallow(j, ok) ==
    /\ job[j].pc \in {"transcribe_left", "transcribe_right"}
    /\ job' = [ job EXCEPT ![j].pc =
                  IF @ = "transcribe_left" THEN "transcribe_right"
                  ELSE "reconstruct" ]
    /\ Log(j, job[j].pc, ok)
    /\ UNCHANGED << req, files, drive, sheet_exists, columnCount, cells,
                    before, parseVars, patVars >>

\* agent_text = transcribe(left_path); patient_text = transcribe(right_path)
Transcribe(j, ok) ==
    /\ job[j].pc \in {"transcribe_left", "transcribe_right"}
    /\ IF ok
       THEN job' = [ job EXCEPT ![j].pc =
                        IF @ = "transcribe_left" THEN "transcribe_right"
                        ELSE "reconstruct" ]
       ELSE Raise(j, << "Transcription failed: ", "cause" >>)
    /\ Log(j, job[j].pc, ok)
    /\ UNCHANGED << req, files, drive, sheet_exists, columnCount, cells,
                    before, parseVars, patVars >>

\* full_transcript = reconstruct_conversation(agent_text, patient_text)
Reconstruct(j, ok) ==
    /\ job[j].pc = "reconstruct"
    /\ IF ok
       THEN job' = [ job EXCEPT ![j].pc = "extract" ]
       ELSE Raise(j, << "Reconstruction failed: ", "cause" >>)
    /\ Log(j, "reconstruct", ok)
    /\ UNCHANGED << req, files, drive, sheet_exists, columnCount, cells,
                    before, parseVars, patVars >>

\* ------------------------------------------------------ stages 5 and 6

\* enhanced_analysis = analyze_scheduling_workflow_enhanced(...), or
\* faq_analysis = analyze_faq_content(full_transcript)
ExtractAnswers(j) ==
    IF req[j].endpoint = "analyze" THEN SampleTexts ELSE SampleFaq

ExtractOk(j, answer) ==
    /\ job[j].pc = "extract"
    /\ job' = [ job EXCEPT ![j].pc = "parse", ![j].analysis = answer ]
    /\ Log(j, "extract", TRUE)
    /\ UNCHANGED << req, files, drive, sheet_exists, columnCount, cells,
                    before, parseVars, patVars >>

ExtractFail(j) ==
    /\ job[j].pc = "extract"
    /\ Raise(j, << IF req[j].endpoint = "analyze" THEN "Enhanced analysis failed: "
                   ELSE "FAQ analysis failed: ", "cause" >>)
    /\ Log(j, "extract", FALSE)
    /\ UNCHANGED << req, files, drive, sheet_exists, columnCount, cells,
                    before, parseVars, patVars >>

\* The parser of the endpoint, then txt_path = ... and the transcript file
\* written next to the mp3.
ParseAndSave(j) ==
    /\ job[j].pc = "parse"
    /\ job' = [ job EXCEPT
                  ![j].pc = "upload",
                  ![j].fields = IF req[j].endpoint = "analyze"
                                THEN parse_enhanced_analysis(job[j].analysis)
                                ELSE << parse_faq_analysis(job[j].analysis) >>,
                  ![j].txt_path = TRUE ]
    /\ files' = files \cup { File(j, "txt") }
    /\ Log(j, "parse", TRUE)
    /\ UNCHANGED << req, drive, sheet_exists, columnCount, cells, before,
                    parseVars, patVars >>

\* ------------------------------------------------------------ stage 7: sink

\* An upload that posts the file twice (a retry after a lost answer).
UploadOk_twice(j) ==
    /\ job[j].pc = "upload"
    /\ drive' = drive \o << [ job |-> j, link |-> Link(j) ],
                            [ job |-> j, link |-> Link(j) ] >>
    /\ job' = [ job EXCEPT ![j].pc = "sheet_creds",
                           ![j].transcript_link = Link(j) ]
    /\ Log(j, "upload", TRUE)
    /\ UNCHANGED << req, files, sheet_exists, columnCount, cells, before,
                    parseVars, patVars >>

\* transcript_link = upload_to_drive(txt_path, folder_id)
UploadOk(j) ==
    /\ job[j].pc = "upload"
    /\ drive' = Append(drive, [ job |-> j, link |-> Link(j) ])
    /\ job' = [ job EXCEPT ![j].pc = "sheet_creds",
                           ![j].transcript_link = Link(j) ]
    /\ Log(j, "upload", TRUE)
    /\ UNCHANGED << req, files, sheet_exists, columnCount, cells, before,
                    parseVars, patVars >>

\* An upload whose failure is swallowed: the handler goes on to the sheet
\* update without a link.
UploadFail_swallowed(j) ==
    /\ job[j].pc = "upload"
    /\ job' = [ job EXCEPT ![j].pc = "sheet_creds" ]
    /\ Log(j, "upload", FALSE)
    /\ UNCHANGED << req, files, drive, sheet_exists, columnCount, cells,
                    before, parseVars, patVars >>

\* upload_to_drive raises (credentials, build, or files().create).
UploadFail(j) ==
    /\ job[j].pc = "upload"
    /\ Raise(j, << "Upload failed: ", "cause" >>)
    /\ Log(j, "upload", FALSE)
    /\ UNCHANGED << req, files, drive, sheet_exists, columnCount, cells,
                    before, parseVars, patVars >>

\* The prefix update_sheet_enhanced / update_faq_sheet put on what they raise.
UpdateFailed(j) ==
    << IF req[j].endpoint = "analyze" THEN "Enhanced sheet update failed: "
       ELSE "FAQ sheet update failed: ", "cause" >>

\* creds = get_service_account_credentials(SHEETS_SCOPES); build(...)
SheetCreds(j, ok) ==
    /\ job[j].pc = "sheet_creds"
    /\ IF ok
       THEN job' = [ job EXCEPT ![j].pc =
                        IF req[j].endpoint = "analyze" THEN "get_metadata"
                        ELSE "update_faq" ]
       ELSE Raise(j, UpdateFailed(j))
    /\ Log(j, "sheet_creds", ok)
    /\ UNCHANGED << req, files, drive, sheet_exists, columnCount, cells,
                    before, parseVars, patVars >>

\* sheet_metadata = spreadsheets().get(...); the search for target_sheet;
\* current_columns read from its gridProperties.
GetMetadata(j, ok) ==
    /\ job[j].pc = "get_metadata"
    /\ IF ok
       THEN job' = [ job EXCEPT
                       ![j].current_columns =
                           IF sheet_exists THEN columnCount ELSE 0,
                       ![j].pc =
                           IF sheet_exists /\ columnCount < NeededColumns
                           THEN "append_columns" ELSE "update_workflow" ]
       ELSE Raise(j, UpdateFailed(j))
    /\ Log(j, "get_metadata", ok)
    /\ UNCHANGED << req, files, drive, sheet_exists, columnCount, cells,
                    before, parseVars, patVars >>

\* An appendDimension request of fixed length 22.
AppendColumns_needed(j, ok) ==
    /\ job[j].pc = "append_columns"
    /\ IF ok
       THEN /\ columnCount' = columnCount + NeededColumns
            /\ job' = [ job EXCEPT ![j].pc = "update_workflow" ]
       ELSE /\ Raise(j, UpdateFailed(j))
            /\ UNCHANGED columnCount
    /\ Log(j, "append_columns", ok)
    /\ UNCHANGED << req, files, drive, sheet_exists, cells, before,
                    parseVars, patVars >>

\* batchUpdate(appendDimension COLUMNS, length = 22 - current_columns)
AppendColumns(j, ok) ==
    /\ job[j].pc = "append_columns"
    /\ IF ok
       THEN /\ columnCount' = columnCount + (NeededColumns - job[j].current_columns)
            /\ job' = [ job EXCEPT ![j].pc = "update_workflow" ]
       ELSE /\ Raise(j, UpdateFailed(j))
            /\ UNCHANGED columnCount
    /\ Log(j, "append_columns", ok)
    /\ UNCHANGED << req, files, drive, sheet_exists, cells, before,
                    parseVars, patVars >>

Completed == << "Completed" >>

\* workflow_values: columns G through O.
workflow_values(j) ==
    [ i \in 1..Len(WorkflowFieldNames) |->
        job[j].fields[1][WorkflowFieldNames[i]] ]
    \o << job[j].transcript_link, Completed >>

\* decision_values: columns P through V.
decision_values(j) ==
    [ i \in 1..Len(DecisionFieldNames) |->
        job[j].fields[2][DecisionFieldNames[i]] ]

\* faq_values: columns B through E.
faq_values(j) ==
    << job[j].fields[1].FAQ_ITEMS, job[j].fields[1].TOTAL_ITEMS,
       job[j].fields[1].NOTES, Completed >>

\* values().update(range = G<row>:O<row>, workflow_values)
UpdateWorkflow(j, ok) ==
    /\ job[j].pc = "update_workflow"
    /\ ok => RangeInGrid(ColO)
    /\ IF ok
       THEN /\ cells' = UpdateRange(cells, req[j].row, ColG, workflow_values(j))
            /\ job' = [ job EXCEPT ![j].pc = "update_decision" ]
       ELSE /\ Raise(j, UpdateFailed(j))
            /\ UNCHANGED cells
    /\ Log(j, "update_workflow", ok)
    /\ UNCHANGED << req, files, drive, sheet_exists, columnCount, before,
                    parseVars, patVars >>

\* A decision write whose failure rolls the row back to what it held when
\* the job was submitted.
UpdateDecision_rollback(j, ok) ==
    /\ job[j].pc = "update_decision"
    /\ ok => RangeInGrid(ColV)
    /\ IF ok
       THEN /\ cells' = UpdateRange(cells, req[j].row, ColP, decision_values(j))
            /\ job' = [ job EXCEPT
                          ![j].pc = "cleanup",
                          ![j].response =
                              SuccessResponse(job[j].transcript_link, job[j].fields) ]
       ELSE /\ Raise(j, UpdateFailed(j))
            /\ cells' = before[j]
    /\ Log(j, "update_decision", ok)
    /\ UNCHANGED << req, files, drive, sheet_exists, columnCount, before,
                    parseVars, patVars >>

\* values().update(range = P<row>:V<row>, decision_values); return True;
\* the handler builds its success response.
UpdateDecision(j, ok) ==
    /\ job[j].pc = "update_decision"
    /\ ok => RangeInGrid(ColV)
    /\ IF ok
       THEN /\ cells' = UpdateRange(cells, req[j].row, ColP, decision_values(j))
            /\ job' = [ job EXCEPT
                          ![j].pc = "cleanup",
                          ![j].response =
                              SuccessResponse(job[j].transcript_link, job[j].fields) ]
       ELSE /\ Raise(j, UpdateFailed(j))
            /\ UNCHANGED cells
    /\ Log(j, "update_decision", ok)
    /\ UNCHANGED << req, files, drive, sheet_exists, columnCount, before,
                    parseVars, patVars >>

\* update_faq_sheet: values().update(range = B<row>:E<row>, faq_values);
\* the handler builds its success response.
UpdateFaq(j, ok) ==
    /\ job[j].pc = "update_faq"
    /\ ok => RangeInGrid(ColE)
    /\ IF ok
       THEN /\ cells' = UpdateRange(cells, req[j].row, ColB, faq_values(j))
            /\ job' = [ job EXCEPT
                          ![j].pc = "cleanup",
                          ![j].response =
                              SuccessResponse(job[j].transcript_link, job[j].fields) ]
       ELSE /\ Raise(j, UpdateFailed(j))
            /\ UNCHANGED cells
    /\ Log(j, "update_faq", ok)
    /\ UNCHANGED << req, files, drive, sheet_exists, columnCount, before,
                    parseVars, patVars >>

\* ------------------------------------------------- the except block

\* A handler pair whose FAQ except block was copied from analyze_call with
\* its range.
ErrorColumn_copied(j) == ColO

\* The status cell the handler writes its error marker to: f"...!O{row}" in
\* analyze_call, f"...!F{row}" in analyze_faq.
ErrorColumn(j) == IF req[j].endpoint = "analyze" THEN ColO ELSE ColF

\* body={"values": [[f"ERROR: {error_msg}"]]}
ErrorMarker(msg) == << "ERROR: " >> \o msg

\* Whether the attempt gets as far as the update call once it has
\* credentials: data['sheet_name'], data['row_number'] and data["sheet_id"]
\* evaluate (a KeyError or TypeError is swallowed by the bare except).
can_address_row(j) ==
    /\ req[j].json = "object"
    /\ CoordinateKeys \subseteq req[j].keys

\* The except block up to the update call.  `if 'data' in locals() and
\* data` decides whether a marker write is attempted at all; an attempt that
\* ends at the credentials or at the range is swallowed, and the handler
\* returns its error response.
HandlerEnter(j, credsOk) ==
    /\ job[j].pc = "handler"
    /\ IF attempts_marker(req[j]) /\ credsOk /\ can_address_row(j)
       THEN /\ job' = [ job EXCEPT ![j].pc = "error_write" ]
            /\ UNCHANGED trace
       ELSE /\ job' = [ job EXCEPT
                          ![j].pc = "cleanup",
                          ![j].response = ErrorResponse(job[j].error_msg) ]
            /\ IF attempts_marker(req[j])
               THEN Log(j, "error_marker", FALSE)
               ELSE UNCHANGED trace
    /\ UNCHANGED << req, files, drive, sheet_exists, columnCount, cells,
                    before, parseVars, patVars >>

\* A handler in which a failed marker write replaces the error it reports.
ErrorWrite_escalates(j, ok) ==
    /\ job[j].pc = "error_write"
    /\ ok => RangeInGrid(ErrorColumn(j))
    /\ cells' = IF ok
                THEN UpdateRange(cells, req[j].row, ErrorColumn(j),
                                 << ErrorMarker(job[j].error_msg) >>)
                ELSE cells
    /\ job' = [ job EXCEPT
                  ![j].pc = "cleanup",
                  ![j].response =
                      IF ok THEN ErrorResponse(job[j].error_msg)
                      ELSE ErrorResponse(<< "Failed to update sheet with error" >>) ]
    /\ Log(j, "error_marker", ok)
    /\ UNCHANGED << req, files, drive, sheet_exists, columnCount, before,
                    parseVars, patVars >>

\* values().update(range = <status cell>, "ERROR: <error_msg>"), its failure
\* swallowed; return jsonify({"error": error_msg}), 500.
ErrorWrite(j, ok) ==
    /\ job[j].pc = "error_write"
    /\ ok => RangeInGrid(ErrorColumn(j))
    /\ cells' = IF ok
                THEN UpdateRange(cells, req[j].row, ErrorColumn(j),
                                 << ErrorMarker(job[j].error_msg) >>)
                ELSE cells
    /\ job' = [ job EXCEPT ![j].pc = "cleanup",
                           ![j].response = ErrorResponse(job[j].error_msg) ]
    /\ Log(j, "error_marker", ok)
    /\ UNCHANGED << req, files, drive, sheet_exists, columnCount, before,
                    parseVars, patVars >>

\* ------------------------------------------------- the finally block

\* The arguments of cleanup_files that are not None.
BoundPaths(j) ==
    { File(j, "mp3") : x \in { b \in {job[j].mp3_path} : b } }
    \cup { File(j, "left") : x \in { b \in {job[j].left_path} : b } }
    \cup { File(j, "right") : x \in { b \in {job[j].right_path} : b } }
    \cup { File(j, "txt") : x \in { b \in {job[j].txt_path} : b } }

\* cleanup_files(mp3_path, left_path, right_path, txt_path); the response
\* leaves the worker.
Cleanup(j) ==
    /\ job[j].pc = "cleanup"
    /\ files' = files \ BoundPaths(j)
    /\ job' = [ job EXCEPT ![j].pc = "done" ]
    /\ UNCHANGED << req, trace, drive, sheet_exists, columnCount, cells,
                    before, parseVars, patVars >>

\* ------------------------------------------------------- specification

Next ==
    \E j \in JobIds :
        \/ \E r \in Requests : Submit(j, r)
        \/ Receive(j)
        \/ DownloadOk(j)
        \/ DownloadFail(j)
        \/ SplitOk(j)
        \/ \E made \in SUBSET {"left", "right"} : SplitFail(j, made)
        \/ \E ok \in BOOLEAN : Transcribe(j, ok)
        \/ \E ok \in BOOLEAN : Reconstruct(j, ok)
        \/ \E answer \in ExtractAnswers(j) : ExtractOk(j, answer)
        \/ ExtractFail(j)
        \/ ParseAndSave(j)
        \/ UploadOk(j)
        \/ UploadFail(j)
        \/ \E ok \in BOOLEAN : SheetCreds(j, ok)
        \/ \E ok \in BOOLEAN : GetMetadata(j, ok)
        \/ \E ok \in BOOLEAN : AppendColumns(j, ok)
        \/ \E ok \in BOOLEAN : UpdateWorkflow(j, ok)
        \/ \E ok \in BOOLEAN : UpdateDecision(j, ok)
        \/ \E ok \in BOOLEAN : UpdateFaq(j, ok)
        \/ \E ok \in BOOLEAN : HandlerEnter(j, ok)
        \/ \E ok \in BOOLEAN : ErrorWrite(j, ok)
        \/ Cleanup(j)

Spec == Init /\ [][Next]_vars

\* The steps of the handler of job j, from the receipt of the request to
\* the finally block.
Handler(j) ==
    \/ Receive(j)
    \/ DownloadOk(j)
    \/ DownloadFail(j)
    \/ SplitOk(j)
    \/ \E made \in SUBSET {"left", "right"} : SplitFail(j, made)
    \/ \E ok \in BOOLEAN : Transcribe(j, ok)
    \/ \E ok \in BOOLEAN : Reconstruct(j, ok)
    \/ \E answer \in ExtractAnswers(j) : ExtractOk(j, answer)
    \/ ExtractFail(j)
    \/ ParseAndSave(j)
    \/ UploadOk(j)
    \/ UploadFail(j)
    \/ \E ok \in BOOLEAN : SheetCreds(j, ok)
    \/ \E ok \in BOOLEAN : GetMetadata(j, ok)
    \/ \E ok \in BOOLEAN : AppendColumns(j, ok)
    \/ \E ok \in BOOLEAN : UpdateWorkflow(j, ok)
    \/ \E ok \in BOOLEAN : UpdateDecision(j, ok)
    \/ \E ok \in BOOLEAN : UpdateFaq(j, ok)
    \/ \E ok \in BOOLEAN : HandlerEnter(j, ok)
    \/ \E ok \in BOOLEAN : ErrorWrite(j, ok)
    \/ Cleanup(j)

\* The jobs where every call the handler makes returns or raises: the
\* worker runs a handler it has entered until it returns.  Requests arrive
\* or not.  The jobs start on a spreadsheet whose sheet still has the 15
\* columns of the workflow layout, or that lacks the sheet.
InitLive == Init /\ columnCount = 15

SpecLive ==
    InitLive /\ [][Next]_vars /\ \A j \in JobIds : WF_vars(Handler(j))

\* ------------------------------------------------- the threaded server

\* Number of handler threads of the development server (app.run serves
\* every request in a thread of its own).
MaxThreads == 2

ThreadIds == 1..MaxThreads

\* The row thread j's request addresses: the threads address distinct rows.
ThreadRow(j) == j + 1

\* The requests of the threaded runs: full descriptors; the first thread
\* serves either endpoint, the second /analyze, any further one /analyze-faq.
ThreadRequests(j) ==
    [ endpoint : IF j = 1 THEN {"analyze", "faq"}
                 ELSE IF j = 2 THEN {"analyze"} ELSE {"faq"},
      json : {"object"}, keys : { RequiredKeys },
      test : {FALSE}, row : { ThreadRow(j) } ]

\* The extractor's answer in the threaded runs.
ThreadAnswer(j) ==
    IF req[j].endpoint = "analyze" THEN << "x" >>
    ELSE << ObjectText(FaqObject("list", << FaqItem(<< "t" >>, << "x" >>) >>,
                                 << "n" >>)) >>

InitThreads ==
    /\ req = [ j \in ThreadIds |-> NoRequest ]
    /\ job = [ j \in ThreadIds |-> NewJob ]
    /\ trace = [ j \in ThreadIds |-> << >> ]
    /\ files = {}
    /\ drive = << >>
    /\ sheet_exists = TRUE
    /\ columnCount = 15
    /\ cells = [ rc \in { ThreadRow(j) : j \in ThreadIds } \X Columns |-> Old ]
    /\ before = [ j \in ThreadIds |-> cells ]
    /\ analysis_text = Empty
    /\ parsed = << workflow_defaults, decision_defaults >>
    /\ parse_pc = "idle"
    /\ PatIdle

\* A request reaches the threaded server: its handler starts at once,
\* whatever the other handlers are doing.
SubmitThread(j, r) ==
    /\ job[j].pc = "idle"
    /\ req' = [ req EXCEPT ![j] = r ]
    /\ job' = [ job EXCEPT ![j].pc = "receive" ]
    /\ UNCHANGED << trace, files, drive, sheet_exists, columnCount, cells,
                    before, parseVars, patVars >>

\* The handlers of the threads, interleaved step by step.  Of the calls
\* that touch nothing shared, the download and the upload may fail; every
\* call on the spreadsheet after the metadata read may fail.
NextThreads ==
    \E j \in ThreadIds :
        \/ \E r \in ThreadRequests(j) : SubmitThread(j, r)
        \/ Receive(j)
        \/ DownloadOk(j)
        \/ DownloadFail(j)
        \/ SplitOk(j)
        \/ Transcribe(j, TRUE)
        \/ Reconstruct(j, TRUE)
        \/ ExtractOk(j, ThreadAnswer(j))
        \/ ParseAndSave(j)
        \/ UploadOk(j)
        \/ UploadFail(j)
        \/ SheetCreds(j, TRUE)
        \/ GetMetadata(j, TRUE)
        \/ \E ok \in BOOLEAN : AppendColumns(j, ok)
        \/ \E ok \in BOOLEAN : UpdateWorkflow(j, ok)
        \/ \E ok \in BOOLEAN : UpdateDecision(j, ok)
        \/ \E ok \in BOOLEAN : UpdateFaq(j, ok)
        \/ \E ok \in BOOLEAN : HandlerEnter(j, ok)
        \/ \E ok \in BOOLEAN : ErrorWrite(j, ok)
        \/ Cleanup(j)

SpecThreads == InitThreads /\ [][NextThreads]_vars

\* ------------------------------------------- the parser on its own

\* **NAME:** as the extractor writes it.
Marker(name) == << "*", "*", name, ":", "*", "*" >>

\* The pieces the extractor texts of SpecParse are built from.
Segments ==
    { Marker("INITIAL_QUESTIONS"), Marker("initial_questions"),
      Marker("DECISION_SEQUENCE"),
      << "*", "*" >>, << " " >>, << "x" >>, << "[" >>, << "]" >> }

RECURSIVE Flatten(_)
Flatten(ss) == IF ss = << >> THEN << >> ELSE Head(ss) \o Flatten(Tail(ss))

\* Every text made of at most MaxSegs segments.
Texts ==
    { Flatten(ss) : ss \in UNION { [ 1..n -> Segments ] : n \in 0..MaxSegs } }

InitParse ==
    /\ req = [ j \in JobIds |-> NoRequest ]
    /\ job = [ j \in JobIds |-> NewJob ]
    /\ trace = [ j \in JobIds |-> << >> ]
    /\ files = {}
    /\ drive = << >>
    /\ sheet_exists = TRUE
    /\ columnCount = NeededColumns
    /\ cells = [ rc \in RowNumbers \X Columns |-> Old ]
    /\ before = [ j \in JobIds |-> cells ]
    /\ analysis_text \in Texts
    /\ parsed = << workflow_defaults, decision_defaults >>
    /\ parse_pc = "input"
    /\ PatIdle

\* workflow_fields, decision_fields = parse_enhanced_analysis(analysis_text)
ParseEnhanced ==
    /\ parse_pc = "input"
    /\ parsed' = parse_enhanced_analysis(analysis_text)
    /\ parse_pc' = "parsed"
    /\ UNCHANGED << analysis_text, jobVars, patVars >>

NextParse == ParseEnhanced

SpecParse == InitParse /\ [][NextParse]_vars

\* ------------------------------------------------------------ FAQ parser runs

MaxItems == 2

\* The entries a FAQ_Items list is drawn from.
FaqEntries ==
    { FaqItem(topic, text) : topic \in { Empty, << "t" >>, << "u" >> },
                             text \in { Empty, << "x" >> } }
        \cup { NonObject }

ItemLists == UNION { [ 1..n -> FaqEntries ] : n \in 0..MaxItems }

FaqObjects ==
    { FaqObject("list", items, notes) :
          items \in ItemLists, notes \in { Empty, << "n" >> } }
        \cup { FaqObject(kind, << >>, notes) :
                  kind \in { "absent", "null" }, notes \in { Empty, << "n" >> } }

\* What surrounds the object in a response: nothing, prose or a stray brace.
Around == { << >>, << Prose >>, << OpenBrace >>, << CloseBrace >> }

FaqTexts ==
    { a \o c \o b : a \in Around, b \in Around,
                    c \in { << >> } \cup { << ObjectText(v) >> : v \in FaqObjects } }

\* A run of parse_faq_analysis on one response.
InitFaq ==
    /\ req = [ j \in JobIds |-> NoRequest ]
    /\ job = [ j \in JobIds |-> NewJob ]
    /\ trace = [ j \in JobIds |-> << >> ]
    /\ files = {}
    /\ drive = << >>
    /\ sheet_exists = TRUE
    /\ columnCount = NeededColumns
    /\ cells = [ rc \in RowNumbers \X Columns |-> Old ]
    /\ before = [ j \in JobIds |-> cells ]
    /\ analysis_text \in FaqTexts
    /\ parsed = faq_result(Empty, Empty, Empty)
    /\ parse_pc = "faq_input"
    /\ PatIdle

\* faq_fields = parse_faq_analysis(analysis_text)
ParseFaq ==
    /\ parse_pc = "faq_input"
    /\ parsed' = parse_faq_analysis(analysis_text)
    /\ parse_pc' = "faq_parsed"
    /\ UNCHANGED << analysis_text, jobVars, patVars >>

NextFaq == ParseFaq

SpecFaq == InitFaq /\ [][NextFaq]_vars

\* ------------------------------------------------ cross-call analysis runs

\* s.split('\n')
split_newline(s) ==
    LET cuts == {0} \cup { i \in 1..Len(s) : s[i] = "\n" } \cup { Len(s) + 1 }
        Cut(k) == CHOOSE c \in cuts : Cardinality({ d \in cuts : d < c }) = k - 1
    IN  [ k \in 1..(Cardinality(cuts) - 1) |->
            SubSeq(s, Cut(k) + 1, Cut(k + 1) - 1) ]

\* ', '.join(map(str, calls_analyzed))
RECURSIVE join_numbers(_)
join_numbers(rows) ==
    IF rows = << >> THEN Empty
    ELSE IF Len(rows) = 1 THEN << ToString(Head(rows)) >>
    ELSE << ToString(Head(rows)), ", " >> \o join_numbers(Tail(rows))

\* str(datetime.now()) of the invocation after those that have returned
timestamp == << ToString(Len(plog) + 1) >>

\* header_row
header_row(endpoint, calls_analyzed) ==
    << << HeaderLabel(endpoint) >> \o timestamp,
       << CallsLabel(endpoint) >> \o join_numbers(calls_analyzed) >>

\* values = [header_row, []] + [[row] for row in analysis_rows]
block_values(endpoint, analysis, calls_analyzed) ==
    << header_row(endpoint, calls_analyzed), << >> >>
    \o [ i \in 1..Len(split_newline(analysis)) |-> << split_newline(analysis)[i] >> ]

PatActive == pat.pc \notin {"idle", "done"}

\* A POST to /analyze-patterns or /analyze-decision-tree reaches the worker.
PatSubmit(e, b) ==
    /\ ~PatActive
    /\ Len(plog) < MaxInvocations
    /\ pat' = [ NewPat EXCEPT !.pc = "receive", !.endpoint = e, !.body = b,
                              !.rows_before = tabs[Title(e)].rows ]
    /\ UNCHANGED << tabs, plog, jobVars, parseVars >>

\* What plog keeps of an invocation that returns `response`.
Returns(response) ==
    [ endpoint |-> pat.endpoint, response |-> response, saved |-> pat.saved,
      calls |-> pat.body.calls, rows_before |-> pat.rows_before ]

\* except Exception as e: return jsonify({"error": str(e)}), 500
PatRaise(msg) ==
    /\ pat' = [ pat EXCEPT !.pc = "done", !.response = PatError(msg) ]
    /\ plog' = Append(plog, Returns(PatError(msg)))

\* if not data or 'calls_data' not in data: raise
PatReceive ==
    /\ pat.pc = "receive"
    /\ IF pat.body.json # "calls"
       THEN PatRaise(<< "No calls data provided" >>)
       ELSE pat' = [ pat EXCEPT !.pc = "analyze" ] /\ UNCHANGED plog
    /\ UNCHANGED << tabs, jobVars, parseVars >>

FailedPrefix(endpoint) ==
    IF endpoint = "patterns" THEN "Pattern analysis failed: "
    ELSE "Decision tree building failed: "

\* analyze_patterns / build_decision_tree_from_calls: the summary of a call
\* without row_number raises KeyError before the extractor is asked.
PatAnalyze(ok, answer) ==
    /\ pat.pc = "analyze"
    /\ IF \E i \in 1..Len(pat.body.calls) : pat.body.calls[i] = NoRowNumber
       THEN PatRaise(<< FailedPrefix(pat.endpoint), "'row_number'" >>)
       ELSE IF ~ok
       THEN PatRaise(<< FailedPrefix(pat.endpoint), "cause" >>)
       ELSE /\ pat' = [ pat EXCEPT !.pc = "save_creds", !.analysis = answer ]
            /\ UNCHANGED plog
    /\ UNCHANGED << tabs, jobVars, parseVars >>

\* save_*: creds = get_service_account_credentials(SHEETS_SCOPES); a failure
\* is caught by the outer except, which returns False.
PatCreds(ok) ==
    /\ pat.pc = "save_creds"
    /\ pat' = [ pat EXCEPT !.pc = IF ok THEN "save_metadata" ELSE "respond" ]
    /\ UNCHANGED << tabs, plog, jobVars, parseVars >>

\* save_*: spreadsheets().get(...) and the search for the title; a failure
\* is caught by the inner except, which logs a warning.
PatMetadata(ok) ==
    /\ pat.pc = "save_metadata"
    /\ ok => pat.body.sheet_id
    /\ pat' = [ pat EXCEPT !.pc =
                  IF ok /\ ~tabs[Title(pat.endpoint)].exists
                  THEN "save_add_sheet" ELSE "save_append" ]
    /\ UNCHANGED << tabs, plog, jobVars, parseVars >>

\* save_*: batchUpdate(addSheet); a failure is caught by the inner except.
PatAddSheet(ok) ==
    /\ pat.pc = "save_add_sheet"
    /\ tabs' = IF ok
               THEN [ tabs EXCEPT ![Title(pat.endpoint)].exists = TRUE ]
               ELSE tabs
    /\ pat' = [ pat EXCEPT !.pc = "save_append" ]
    /\ UNCHANGED << plog, jobVars, parseVars >>

\* A save that writes its values at the top of the sheet.
PatAppend_at_top(ok) ==
    /\ pat.pc = "save_append"
    /\ ok => pat.body.sheet_id /\ tabs[Title(pat.endpoint)].exists
    /\ tabs' = IF ok
               THEN [ tabs EXCEPT ![Title(pat.endpoint)].rows =
                        block_values(pat.endpoint, pat.analysis, pat.body.calls) ]
               ELSE tabs
    /\ pat' = [ pat EXCEPT !.pc = "respond", !.saved = ok ]
    /\ UNCHANGED << plog, jobVars, parseVars >>

\* save_*: values().append(range = "<title>!A:A", INSERT_ROWS, values) and
\* return True; a failure is caught by the outer except, which returns
\* False.  The new rows go below the rows the sheet has.
PatAppend(ok) ==
    /\ pat.pc = "save_append"
    /\ ok => pat.body.sheet_id /\ tabs[Title(pat.endpoint)].exists
    /\ tabs' = IF ok
               THEN [ tabs EXCEPT ![Title(pat.endpoint)].rows =
                        @ \o block_values(pat.endpoint, pat.analysis,
                                          pat.body.calls) ]
               ELSE tabs
    /\ pat' = [ pat EXCEPT !.pc = "respond", !.saved = ok ]
    /\ UNCHANGED << plog, jobVars, parseVars >>

\* The value of the save is dropped; return jsonify({"status": "success", ...})
PatRespond ==
    /\ pat.pc = "respond"
    /\ pat' = [ pat EXCEPT
                  !.pc = "done",
                  !.response = PatSuccess(Len(pat.body.calls), pat.analysis) ]
    /\ plog' = Append(plog, Returns(PatSuccess(Len(pat.body.calls), pat.analysis)))
    /\ UNCHANGED << tabs, jobVars, parseVars >>

InitPatterns ==
    /\ req = [ j \in JobIds |-> NoRequest ]
    /\ job = [ j \in JobIds |-> NewJob ]
    /\ trace = [ j \in JobIds |-> << >> ]
    /\ files = {}
    /\ drive = << >>
    /\ sheet_exists = TRUE
    /\ columnCount = NeededColumns
    /\ cells = [ rc \in RowNumbers \X Columns |-> Old ]
    /\ before = [ j \in JobIds |-> cells ]
    /\ analysis_text = Empty
    /\ parsed = << workflow_defaults, decision_defaults >>
    /\ parse_pc = "idle"
    /\ pat = NewPat
    /\ tabs \in { InitialTabs(e) : e \in BOOLEAN }
    /\ plog = << >>

NextPatterns ==
    \/ \E e \in PatEndpoints : \E b \in PatBodies : PatSubmit(e, b)
    \/ PatReceive
    \/ \E ok \in BOOLEAN : \E answer \in SampleSummaries : PatAnalyze(ok, answer)
    \/ \E ok \in BOOLEAN : PatCreds(ok)
    \/ \E ok \in BOOLEAN : PatMetadata(ok)
    \/ \E ok \in BOOLEAN : PatAddSheet(ok)
    \/ \E ok \in BOOLEAN : PatAppend(ok)
    \/ PatRespond

SpecPatterns == InitPatterns /\ [][NextPatterns]_vars

\* ------------------------------- cross-call runs on the threaded server

\* The body of the cross-call requests of the threaded runs: calls_data of
\* two calls and a sheet_id.
ThreadBody == [ json |-> "calls", calls |-> << 2, 3 >>, sheet_id |-> TRUE ]

\* The extractor's answer in the threaded cross-call runs.
ThreadSummary == << "a", "\n", "b" >>

\* str(datetime.now()) in thread i: the threads read distinct times.
thread_timestamp(i) == << "t", ToString(i) >>

\* values = [header_row, []] + [[row] for row in analysis_rows] in thread i
thread_values(i) ==
    << << << HeaderLabel(pat[i].endpoint) >> \o thread_timestamp(i),
          << CallsLabel(pat[i].endpoint) >> \o join_numbers(pat[i].body.calls) >>,
       << >> >>
    \o [ k \in 1..Len(split_newline(pat[i].analysis)) |->
            << split_newline(pat[i].analysis)[k] >> ]

\* The threaded server before the first cross-call request: every thread's
\* handler idle, neither dedicated sheet there.
InitPatThreads ==
    /\ req = [ j \in JobIds |-> NoRequest ]
    /\ job = [ j \in JobIds |-> NewJob ]
    /\ trace = [ j \in JobIds |-> << >> ]
    /\ files = {}
    /\ drive = << >>
    /\ sheet_exists = TRUE
    /\ columnCount = NeededColumns
    /\ cells = [ rc \in RowNumbers \X Columns |-> Old ]
    /\ before = [ j \in JobIds |-> cells ]
    /\ analysis_text = Empty
    /\ parsed = << workflow_defaults, decision_defaults >>
    /\ parse_pc = "idle"
    /\ pat = [ i \in ThreadIds |-> NewPat ]
    /\ tabs = InitialTabs(FALSE)
    /\ plog = << >>

\* A cross-call request reaches thread i; data is checked, the extractor
\* answers, and the handler calls save_*.
ThreadPatSubmit(i, e) ==
    /\ pat[i].pc = "idle"
    /\ pat' = [ pat EXCEPT ![i] =
                  [ NewPat EXCEPT !.pc = "save_creds", !.endpoint = e,
                                  !.body = ThreadBody,
                                  !.analysis = ThreadSummary ] ]
    /\ UNCHANGED << tabs, plog, jobVars, parseVars >>

\* save_* in thread i: the credentials; a failure returns False.
ThreadPatCreds(i, ok) ==
    /\ pat[i].pc = "save_creds"
    /\ pat' = [ pat EXCEPT ![i].pc = IF ok THEN "save_metadata" ELSE "respond" ]
    /\ UNCHANGED << tabs, plog, jobVars, parseVars >>

\* save_* in thread i: spreadsheets().get(...) and the search for the
\* title, on the sheets there are when this thread reads them.
ThreadPatMetadata(i, ok) ==
    /\ pat[i].pc = "save_metadata"
    /\ pat' = [ pat EXCEPT ![i].pc =
                  IF ok /\ ~tabs[Title(pat[i].endpoint)].exists
                  THEN "save_add_sheet" ELSE "save_append" ]
    /\ UNCHANGED << tabs, plog, jobVars, parseVars >>

\* save_* in thread i: batchUpdate(addSheet).  The service refuses a title
\* the spreadsheet already has; any failure is caught by the inner except.
ThreadPatAddSheet(i, ok) ==
    /\ pat[i].pc = "save_add_sheet"
    /\ ok => ~tabs[Title(pat[i].endpoint)].exists
    /\ tabs' = IF ok
               THEN [ tabs EXCEPT ![Title(pat[i].endpoint)].exists = TRUE ]
               ELSE tabs
    /\ pat' = [ pat EXCEPT ![i].pc = "save_append" ]
    /\ UNCHANGED << plog, jobVars, parseVars >>

\* save_* in thread i: values().append(range = "<title>!A:A", ...) and
\* return True; a failure (always, when the sheet is not there) is caught
\* by the outer except, which returns False.
ThreadPatAppend(i, ok) ==
    /\ pat[i].pc = "save_append"
    /\ ok => tabs[Title(pat[i].endpoint)].exists
    /\ tabs' = IF ok
               THEN [ tabs EXCEPT ![Title(pat[i].endpoint)].rows =
                        @ \o thread_values(i) ]
               ELSE tabs
    /\ pat' = [ pat EXCEPT ![i].pc = "respond", ![i].saved = ok ]
    /\ UNCHANGED << plog, jobVars, parseVars >>

\* The value of the save is dropped; thread i returns its success response.
ThreadPatRespond(i) ==
    /\ pat[i].pc = "respond"
    /\ pat' = [ pat EXCEPT
                  ![i].pc = "done",
                  ![i].response =
                      PatSuccess(Len(pat[i].body.calls), pat[i].analysis) ]
    /\ UNCHANGED << tabs, plog, jobVars, parseVars >>

NextPatThreads ==
    \E i \in ThreadIds :
        \/ \E e \in PatEndpoints : ThreadPatSubmit(i, e)
        \/ \E ok \in BOOLEAN : ThreadPatCreds(i, ok)
        \/ \E ok \in BOOLEAN : ThreadPatMetadata(i, ok)
        \/ \E ok \in BOOLEAN : ThreadPatAddSheet(i, ok)
        \/ \E ok \in BOOLEAN : ThreadPatAppend(i, ok)
        \/ ThreadPatRespond(i)

SpecPatThreads == InitPatThreads /\ [][NextPatThreads]_vars

\* ------------------------------------------------------------------ claims

\* The value the parser returned for field f.
Returned(f) == IF f \in WorkflowKeys THEN parsed[1][f] ELSE parsed[2][f]

\* The marker of field f occurs in the text, in any case.
MarkerOccurs(text, f) == \E i \in 1..Len(text) : MarkerAt(text, i, f)

FirstMarker(text, f) ==
    CHOOSE i \in 1..Len(text) :
        /\ MarkerAt(text, i, f)
        /\ \A h \in 1..(i - 1) : ~MarkerAt(text, h, f)

AnyMarkerAt(text, i) == \E g \in AllKeys : MarkerAt(text, i, g)

\* The text after the first marker of f, up to the next marker of any
\* expected field or the end of the text.
RECURSIVE UpToMarker(_, _)
UpToMarker(text, p) ==
    IF p > Len(text) \/ AnyMarkerAt(text, p) THEN << >>
    ELSE << text[p] >> \o UpToMarker(text, p + 1)

SpanAfterMarker(text, f) == UpToMarker(text, FirstMarker(text, f) + 6)

\* C2: every field whose marker occurs in the extractor text is returned with
\* the text between its marker and the next marker (or the end), trimmed and
\* without its enclosing brackets.
C2_LocatedFieldsReturned ==
    parse_pc = "parsed" =>
        \A f \in AllKeys :
            MarkerOccurs(analysis_text, f) =>
                Returned(f) = sub_brackets(Strip(SpanAfterMarker(analysis_text, f)))

\* C3: every field whose marker does not occur in the extractor text is a key
\* of the returned mappings, with the empty string as its value.
C3_MissingFieldsEmpty ==
    parse_pc = "parsed" =>
        \A f \in AllKeys :
            ~MarkerOccurs(analysis_text, f) =>
                /\ f \in WorkflowKeys => f \in DOMAIN parsed[1]
                /\ f \in DecisionKeys => f \in DOMAIN parsed[2]
                /\ Returned(f) = Empty

\* C3 witness: a parsed text that carries the marker and a value of one field
\* and lacks the marker of another, whose key is returned empty.
C3_Witness ==
    /\ parse_pc = "parsed"
    /\ MarkerOccurs(analysis_text, "INITIAL_QUESTIONS")
    /\ extracted_value(analysis_text, "INITIAL_QUESTIONS") = << "x" >>
    /\ ~MarkerOccurs(analysis_text, "DECISION_SEQUENCE")
    /\ ~MarkerOccurs(analysis_text, "SUMMARY")
    /\ "SUMMARY" \in DOMAIN parsed[1]
    /\ parsed[2]["DECISION_SEQUENCE"] = Empty


\* ------------------------------------------------- claims about the jobs

\* The handler of job j has returned its response.
Done(j) == job[j].pc = "done"

Events(j) == Range(trace[j])

\* Number of calls of `op` in the history of job j.
Count(j, op) == Cardinality({ i \in 1..Len(trace[j]) : trace[j][i].op = op })

Called(j, op) == \E e \in Events(j) : e.op = op

\* The temporary files of job j that exist.
FilesOf(j) == { f \in files : f[1] = j }

\* The pipeline stages, as opposed to the error-marker write.
PipelineOps ==
    { "download", "split", "transcribe_left", "transcribe_right",
      "reconstruct", "extract", "parse", "upload", "sheet_creds",
      "get_metadata", "append_columns", "update_workflow",
      "update_decision", "update_faq" }

\* The calls that write cells of the job's row.
RowWriteOps == { "update_workflow", "update_decision", "update_faq", "error_marker" }

\* Number of writes to the row of job j that took effect.
RowMutations(j) ==
    Cardinality({ i \in 1..Len(trace[j]) :
                    trace[j][i].op \in RowWriteOps /\ trace[j][i].ok })

\* Number of transcripts job j uploaded.
Uploads(j) == Cardinality({ i \in 1..Len(drive) : drive[i].job = j })

\* C1: once a job has returned its response, none of its temporary files
\* (raw audio, left and right mono files, transcript text) exists.
C1_NoTempFileAfterReturn ==
    \A j \in JobIds : Done(j) => FilesOf(j) = {}

\* C4: every job that ends with an error response has attempted exactly one
\* write of an error marker to its status cell.
C4_ExactlyOneMarkerAttempt ==
    \A j \in JobIds :
        Done(j) /\ job[j].response.kind = "error" => Count(j, "error_marker") = 1

\* C4 as amended: a job that ends with an error response has attempted at
\* most one marker write; exactly one when the request body was received and
\* is non-empty, none when the body is missing, unparseable or empty.
C4_AtMostOneMarkerAttempt ==
    \A j \in JobIds :
        /\ Count(j, "error_marker") <= 1
        /\ Done(j) /\ job[j].response.kind = "error" =>
              (Count(j, "error_marker") = 1 <=> req[j].json \in {"notdict", "object"})

\* C4 witness: two kinds of failed jobs are distinguished; this one failed
\* with a full descriptor at a late stage and attempted its one marker write.
C4_Witness ==
    \E j \in JobIds :
        /\ Done(j)
        /\ job[j].response.kind = "error"
        /\ Ev("update_decision", FALSE) \in Events(j)
        /\ Count(j, "error_marker") = 1

\* C5: after a failed stage no later pipeline stage is invoked, and no stage
\* is invoked twice (transcribe once per channel).
C5_FailureStopsPipeline ==
    \A j \in JobIds :
        /\ \A op \in PipelineOps : Count(j, op) <= 1
        /\ \A i \in 1..Len(trace[j]) : \A k \in 1..Len(trace[j]) :
              ( /\ i < k
                /\ trace[j][i].op \in PipelineOps
                /\ ~trace[j][i].ok )
              => trace[j][k].op \notin PipelineOps

\* C5 witness: a job that failed in the middle of the pipeline and returned.
C5_Witness ==
    \E j \in JobIds :
        /\ Done(j)
        /\ Ev("transcribe_left", FALSE) \in Events(j)
        /\ Ev("split", TRUE) \in Events(j)
        /\ ~Called(j, "transcribe_right")

\* C6: a job uploads at most one transcript and mutates its row at most once.
C6_OneUploadOneMutation ==
    \A j \in JobIds : Uploads(j) <= 1 /\ RowMutations(j) <= 1

\* C6 as amended: a job uploads at most one transcript, issues each of its
\* range updates (workflow, decision, FAQ, error marker) at most once, and so
\* mutates its row at most twice in /analyze and at most once in /analyze-faq.
C6_OneUploadBoundedMutations ==
    \A j \in JobIds :
        /\ Uploads(j) <= 1
        /\ \A op \in RowWriteOps : Count(j, op) <= 1
        /\ RowMutations(j) <= (IF req[j].endpoint = "faq" THEN 1 ELSE 2)

\* C6 witness: a successful /analyze job: one upload, two range updates.
C6_Witness ==
    \E j \in JobIds :
        /\ Done(j)
        /\ job[j].response.kind = "success"
        /\ Uploads(j) = 1
        /\ RowMutations(j) = 2

\* No job was submitted after job j: nothing but job j has written to the
\* datastore since job j was submitted.
NoLaterWriter(j) == \A k \in JobIds : k > j => job[k].pc = "idle"

\* The row of job j holds the values `vals` from column c1 on.
RowHolds(j, c1, vals) ==
    \A i \in 1..Len(vals) : cells[<< req[j].row, c1 + i - 1 >>] = vals[i]

\* C7: after a success response, and with no other writer, the job's row holds the parsed fields of its
\* mode, the archive link of the upload, and "Completed".
C7_SuccessRowComplete ==
    \A j \in JobIds :
        ( /\ Done(j)
          /\ NoLaterWriter(j)
          /\ job[j].response.kind = "success"
          /\ ~req[j].test )
        =>  /\ \E c \in Columns :
                  cells[<< req[j].row, c >>] = job[j].response.transcript_link
            /\ \E c \in Columns : cells[<< req[j].row, c >>] = Completed
            /\ req[j].endpoint = "analyze" =>
                  /\ RowHolds(j, ColG, workflow_values(j))
                  /\ RowHolds(j, ColP, decision_values(j))
            /\ req[j].endpoint = "faq" => RowHolds(j, ColB, faq_values(j))

\* C8: in update_sheet_enhanced the decision range is written only after the
\* workflow range; when the workflow write succeeded and the decision write
\* failed, the job answers with an error, cells G:N keep what the first
\* update wrote and cells P:V are as they were before the job.
C8_PartialWriteKept ==
    \A j \in JobIds :
        /\ Called(j, "update_decision") =>
              \E i \in 1..Len(trace[j]) :
                  /\ trace[j][i] = Ev("update_workflow", TRUE)
                  /\ \A k \in 1..i : trace[j][k].op # "update_decision"
        /\ ( /\ Done(j)
             /\ NoLaterWriter(j)
             /\ Ev("update_workflow", TRUE) \in Events(j)
             /\ Ev("update_decision", FALSE) \in Events(j) )
           => /\ job[j].response.kind = "error"
              /\ job[j].response.code = 500
              /\ RowHolds(j, ColG, SubSeq(workflow_values(j), 1, ColN - ColG + 1))
              /\ \A c \in ColP..ColV :
                    cells[<< req[j].row, c >>] = before[j][<< req[j].row, c >>]

\* C8 witness: a returned job whose workflow write succeeded and whose
\* decision write failed.
C8_Witness ==
    \E j \in JobIds :
        /\ Done(j)
        /\ Ev("update_workflow", TRUE) \in Events(j)
        /\ Ev("update_decision", FALSE) \in Events(j)
        /\ cells[<< req[j].row, ColN >>] = Link(j)

\* C9: after a failed download no later stage is called and no temporary
\* file of the job exists; the job attempts the error marker with the message
\* it returns, and answers with an error and a non-200 status.
C9_DownloadFailure ==
    \A j \in JobIds :
        Ev("download", FALSE) \in Events(j) =>
            /\ \A op \in PipelineOps \ {"download"} : ~Called(j, op)
            /\ FilesOf(j) = {}
            /\ BoundPaths(j) = {}
            /\ Done(j) =>
                  /\ job[j].response.kind = "error"
                  /\ job[j].response.code # 200
                  /\ job[j].response.message = << "File download failed: ", "cause" >>
                  /\ Count(j, "error_marker") = 1
                  /\ Ev("error_marker", TRUE) \in Events(j) /\ NoLaterWriter(j) =>
                        cells[<< req[j].row, ErrorColumn(j) >>]
                            = ErrorMarker(job[j].response.message)

\* C9 witness: a returned job whose download failed and whose error marker
\* reached the status cell.
C9_Witness ==
    \E j \in JobIds :
        /\ Done(j)
        /\ Ev("download", FALSE) \in Events(j)
        /\ Ev("error_marker", TRUE) \in Events(j)

\* C10: the splitter yields both output files or leaves none behind: after a
\* job whose split failed, neither mono file exists.
C10_SplitAllOrNothing ==
    \A j \in JobIds :
        /\ Ev("split", TRUE) \in Events(j) /\ job[j].pc = "transcribe_left" =>
              { File(j, "left"), File(j, "right") } \subseteq files
        /\ Done(j) /\ Ev("split", FALSE) \in Events(j) =>
              File(j, "left") \notin files /\ File(j, "right") \notin files

\* ------------------------------------------------------------ C11 .. C13

\* parse_faq_analysis has returned.
FaqParsed == parse_pc = "faq_parsed"

\* The response is the text of the JSON object v, with at most prose around.
IsJsonOf(text, v) ==
    \E i \in 1..Len(text) :
        /\ text[i] = ObjectText(v)
        /\ \A k \in 1..Len(text) : k # i => text[k] = Prose

\* The response is valid JSON whose FAQ_Items is the list `items` of
\* {Topic, FAQ_Text} objects.
IsItemListOf(text, items) ==
    /\ \A i \in 1..Len(items) : items[i] # NonObject
    /\ \E notes \in { Empty, << "n" >> } :
          IsJsonOf(text, FaqObject("list", items, notes))

\* s.split("\n")
RECURSIVE SplitLines(_)
SplitLines(s) ==
    IF \A i \in 1..Len(s) : s[i] # "\n" THEN << s >>
    ELSE LET n == CHOOSE i \in 1..Len(s) :
                      s[i] = "\n" /\ \A k \in 1..(i - 1) : s[k] # "\n"
         IN  << SubSeq(s, 1, n - 1) >> \o SplitLines(SubSeq(s, n + 1, Len(s)))

\* The lines of a rendered result that start with the bullet.
BulletLines(s) ==
    SelectSeq(SplitLines(s), LAMBDA l : l # << >> /\ l[1] = "bullet ")

\* The line the parser is to render for an entry.
BulletLineOf(item) ==
    << "bullet " >> \o item.Topic \o << ": " >> \o item.FAQ_Text

\* The entries with a Topic and a FAQ_Text that are both non-empty.
Complete(items) ==
    SelectSeq(items, LAMBDA it : it.Topic # Empty /\ it.FAQ_Text # Empty)

\* C11: for a valid JSON response whose FAQ_Items is a list of
\* {Topic, FAQ_Text} objects, FAQ_ITEMS has exactly one bulleted line per
\* item, in input order, and TOTAL_ITEMS is the number of items in the list.
C11_OneLinePerItem ==
    \A items \in ItemLists :
        FaqParsed /\ IsItemListOf(analysis_text, items) =>
            /\ Len(BulletLines(parsed.FAQ_ITEMS)) = Len(items)
            /\ \A i \in 1..Len(items) :
                  i <= Len(BulletLines(parsed.FAQ_ITEMS)) =>
                      BulletLines(parsed.FAQ_ITEMS)[i] = BulletLineOf(items[i])
            /\ parsed.TOTAL_ITEMS = << ToString(Len(items)) >>

\* C11 as amended: for such a response FAQ_ITEMS has exactly one bulleted
\* line per item whose Topic and FAQ_Text are both non-empty, in input order
\* (items with an empty or missing Topic or FAQ_Text are left out), and
\* TOTAL_ITEMS is the number of those items.
C11_OneLinePerCompleteItem ==
    \A items \in ItemLists :
        FaqParsed /\ IsItemListOf(analysis_text, items) =>
            /\ Len(BulletLines(parsed.FAQ_ITEMS)) = Len(Complete(items))
            /\ \A i \in 1..Len(Complete(items)) :
                  i <= Len(BulletLines(parsed.FAQ_ITEMS)) =>
                      BulletLines(parsed.FAQ_ITEMS)[i]
                          = BulletLineOf(Complete(items)[i])
            /\ parsed.TOTAL_ITEMS = << ToString(Len(Complete(items))) >>

\* C11 witness: a parsed response with two different complete items, inside
\* prose.
C11_Witness ==
    /\ FaqParsed
    /\ Len(analysis_text) > 1
    /\ IsItemListOf(analysis_text,
                    << FaqItem(<< "u" >>, << "x" >>), FaqItem(<< "t" >>, << "x" >>) >>)
    /\ parsed.TOTAL_ITEMS = << "2" >>

\* C13: for a valid JSON response with zero items (FAQ_Items absent or an
\* empty list) FAQ_ITEMS is the sentence "No FAQ items mentioned in this
\* call." and TOTAL_ITEMS is "0".
C13_ZeroItemsFallback ==
    \A notes \in { Empty, << "n" >> } :
        ( /\ FaqParsed
          /\ \/ IsJsonOf(analysis_text, FaqObject("absent", << >>, notes))
             \/ IsJsonOf(analysis_text, FaqObject("list", << >>, notes)) )
        => /\ parsed.FAQ_ITEMS = << "No FAQ items mentioned in this call." >>
           /\ parsed.TOTAL_ITEMS = << "0" >>

\* C13 witness: a parsed response whose object has no FAQ_Items member.
C13_Witness ==
    /\ FaqParsed
    /\ IsJsonOf(analysis_text, FaqObject("absent", << >>, << "n" >>))
    /\ parsed.NOTES = << "n" >>


\* No "{" is followed by a "}": the response holds no JSON object.
NoJsonObject(text) ==
    /\ \A i \in 1..Len(text) : text[i].t # "object"
    /\ ~\E i \in 1..Len(text) : \E k \in 1..Len(text) :
          i < k /\ text[i].t = "{" /\ text[k].t = "}"

\* The text from the first "{" to the last "}" is not one JSON value.
InvalidJson(text) ==
    /\ ~NoJsonObject(text)
    /\ \/ \E i \in 1..Len(text) : text[i].t = "object" /\
            \E k \in 1..Len(text) : k # i /\ text[k].t \in {"{", "}", "object"}
       \/ /\ \A i \in 1..Len(text) : text[i].t # "object"
          /\ \E i \in 1..Len(text) : text[i].t = "x" /\
                (\E k \in 1..(i - 1) : text[k].t = "{") /\
                (\E k \in (i + 1)..Len(text) : text[k].t = "}")

\* Valid JSON whose FAQ_Items list has an entry that is not an object.
NonObjectEntries(text) ==
    \E i \in 1..Len(text) :
        /\ text[i].t = "object"
        /\ \A k \in 1..Len(text) : k # i => text[k] = Prose
        /\ text[i].v.has_items = "list"
        /\ \E n \in 1..Len(text[i].v.items) : text[i].v.items[n] = NonObject

Malformed(text) ==
    NoJsonObject(text) \/ InvalidJson(text) \/ NonObjectEntries(text)

\* C12: for a malformed extractor response (no JSON object, invalid JSON, or
\* FAQ_Items entries that are not objects) the FAQ parser raises nothing and
\* returns TOTAL_ITEMS "0" and a non-empty NOTES, and the FAQ job goes on to
\* the archive upload and, when that succeeds, to the datastore update.
C12_MalformedFaqContinues ==
    \A j \in JobIds :
        ( /\ req[j].endpoint = "faq"
          /\ Ev("extract", TRUE) \in Events(j)
          /\ Malformed(job[j].analysis)
          /\ job[j].pc # "parse" )
        => /\ Ev("parse", TRUE) \in Events(j)
           /\ job[j].fields[1].TOTAL_ITEMS = << "0" >>
           /\ job[j].fields[1].NOTES # Empty
           /\ job[j].pc = "upload" \/ Called(j, "upload")
           /\ Ev("upload", TRUE) \in Events(j) =>
                 job[j].pc = "sheet_creds" \/ Called(j, "sheet_creds")

\* C12 witness: a FAQ job whose extractor response had a non-object entry
\* has written its row and returned success.
C12_Witness ==
    \E j \in JobIds :
        /\ Done(j)
        /\ req[j].endpoint = "faq"
        /\ NonObjectEntries(job[j].analysis)
        /\ Ev("update_faq", TRUE) \in Events(j)
        /\ job[j].response.kind = "success"

\* ------------------------------------------------------------ C14 .. C16, C20

\* A success response that carries the archive link and the fields.
FullSuccess(r) ==
    /\ r.kind = "success"
    /\ r.code = 200
    /\ r.transcript_link # Empty
    /\ r.fields # << NoFields >>

\* An error response: a message and a non-200 status code.
ErrorShape(r) ==
    /\ r.kind = "error"
    /\ r.code # 200
    /\ r.message # Empty
    /\ r.transcript_link = Empty
    /\ r.fields = << NoFields >>

\* C14: every response is either a success response carrying the archive
\* link and the extracted fields, or an error response carrying a message
\* and a non-200 status code.
C14_TwoResponseShapes ==
    \A j \in JobIds :
        Done(j) => FullSuccess(job[j].response) \/ ErrorShape(job[j].response)

\* C14 as amended: the response to a request that is not a test request is
\* either a success response carrying the archive link and the extracted
\* fields or an error response carrying a message and a non-200 status
\* code; a test request (a JSON object with test = true) gets a success
\* response that carries a message only, and no other request does.
C14_TwoShapesOrTestReply ==
    \A j \in JobIds :
        Done(j) =>
            IF req[j].json = "object" /\ req[j].test
            THEN /\ job[j].response.kind = "success"
                 /\ job[j].response.code = 200
                 /\ job[j].response.message = << "Webhook is working" >>
                 /\ job[j].response.transcript_link = Empty
                 /\ job[j].response.fields = << NoFields >>
            ELSE FullSuccess(job[j].response) \/ ErrorShape(job[j].response)

\* C14 witness: a job that was not a test request has returned a success
\* response with the link of its own upload.
C14_Witness ==
    \E j \in JobIds :
        /\ Done(j)
        /\ ~req[j].test
        /\ FullSuccess(job[j].response)
        /\ job[j].response.transcript_link = Link(j)

\* The stages of the pipeline, the steps inside the datastore update left
\* out.
StageOps ==
    { "download", "split", "transcribe_left", "transcribe_right",
      "reconstruct", "extract", "parse", "upload", "update_workflow",
      "update_decision", "update_faq" }

\* The stages job j has invoked, in order.
StageSequence(j) ==
    LET st == SelectSeq(trace[j], LAMBDA e : e.op \in StageOps)
    IN  [ i \in 1..Len(st) |-> st[i].op ]

\* download, split, transcribe agent, transcribe patient, reconstruct,
\* extract, parse, upload, then one datastore write per field group.
HappyPath(endpoint) ==
    << "download", "split", "transcribe_left", "transcribe_right",
       "reconstruct", "extract", "parse", "upload" >>
    \o (IF endpoint = "analyze" THEN << "update_workflow", "update_decision" >>
        ELSE << "update_faq" >>)

\* Job j went through validation and none of its calls failed.
EveryStageSucceeded(j) ==
    /\ Called(j, "download")
    /\ \A e \in Events(j) : e.ok

\* C15: in a job where every stage succeeds the stages run in this order,
\* each once: download, split, transcribe agent channel, transcribe patient
\* channel, reconstruct, extract, parse, upload, datastore write (once per
\* field group); then the temporary files are gone and the success response
\* with the link of the upload is returned.
C15_HappyPathOrder ==
    \A j \in JobIds :
        Done(j) /\ EveryStageSucceeded(j) =>
            /\ StageSequence(j) = HappyPath(req[j].endpoint)
            /\ FilesOf(j) = {}
            /\ FullSuccess(job[j].response)
            /\ job[j].response.transcript_link = Link(j)
            /\ Uploads(j) = 1

\* C15 witness: an /analyze job all of whose stages succeeded, on a sheet
\* that first had to be widened, has returned.
C15_Witness ==
    \E j \in JobIds :
        /\ Done(j)
        /\ EveryStageSucceeded(j)
        /\ req[j].endpoint = "analyze"
        /\ Ev("append_columns", TRUE) \in Events(j)
        /\ Ev("update_decision", TRUE) \in Events(j)

\* C16: reconstruct is invoked only after both transcribe calls of the job
\* have returned successfully; if either transcription fails, reconstruct
\* is never invoked.
C16_ReconstructAfterBoth ==
    \A j \in JobIds :
        /\ \A k \in 1..Len(trace[j]) :
              trace[j][k].op = "reconstruct" =>
                  /\ \E i \in 1..(k - 1) : trace[j][i] = Ev("transcribe_left", TRUE)
                  /\ \E i \in 1..(k - 1) : trace[j][i] = Ev("transcribe_right", TRUE)
        /\ ( \/ Ev("transcribe_left", FALSE) \in Events(j)
             \/ Ev("transcribe_right", FALSE) \in Events(j) )
           => ~Called(j, "reconstruct") /\ job[j].pc # "reconstruct"

\* C16 witness: a returned job whose second transcription failed after the
\* first had succeeded.
C16_Witness ==
    \E j \in JobIds :
        /\ Done(j)
        /\ Ev("transcribe_left", TRUE) \in Events(j)
        /\ Ev("transcribe_right", FALSE) \in Events(j)
        /\ ~Called(j, "reconstruct")

\* C20: when the write of the error marker itself fails, no exception
\* leaves the handler: it goes on to the finally block, the files its path
\* variables name are removed, and the response is the error response with
\* the message of the stage failure.
C20_MarkerFailureSwallowed ==
    \A j \in JobIds :
        Ev("error_marker", FALSE) \in Events(j) =>
            /\ job[j].pc \in {"cleanup", "done"}
            /\ job[j].error_msg # Empty
            /\ job[j].response.kind = "error"
            /\ job[j].response.code = 500
            /\ job[j].response.message = job[j].error_msg
            /\ Done(j) => files \cap BoundPaths(j) = {}

\* C20 witness: a job whose upload failed and whose marker write failed
\* too has returned, its row untouched.
C20_Witness ==
    \E j \in JobIds :
        /\ Done(j)
        /\ Ev("upload", FALSE) \in Events(j)
        /\ Ev("error_marker", FALSE) \in Events(j)
        /\ CoordinateKeys \subseteq req[j].keys
        /\ cells = before[j]
        /\ job[j].response.message = << "Upload failed: ", "cause" >>

\* ------------------------------------------------------------ C18, C19

\* The block a save is to append for the n-th invocation: a header row of
\* two cells, an empty row, then one row of one cell per line of the result.
BlockOf(endpoint, n, calls, analysis) ==
    << << << IF endpoint = "patterns" THEN "Pattern Analysis - "
             ELSE "Decision Tree Analysis - ", ToString(n) >>,
          << IF endpoint = "patterns" THEN "Calls Analyzed: "
             ELSE "Based on calls: " >> \o join_numbers(calls) >>,
       << >> >>
    \o [ i \in 1..Len(SplitLines(analysis)) |-> << SplitLines(analysis)[i] >> ]

\* A cross-call invocation is between its request and its response.
InFlight(t) == PatActive /\ Title(pat.endpoint) = t

\* The rows of sheet t as the returned invocation i left them: the rows the
\* next invocation on t found, or the rows the sheet has now.
RowsAfter(t, i) ==
    LET later == { k \in (i + 1)..Len(plog) : Title(plog[k].endpoint) = t }
    IN  IF later # {}
        THEN plog[CHOOSE k \in later : \A m \in later : k <= m].rows_before
        ELSE IF InFlight(t) THEN pat.rows_before
        ELSE tabs[t].rows

\* C18: whenever /analyze-patterns or /analyze-decision-tree returns a
\* success response, one new block for that invocation has been appended to
\* the dedicated sheet of the endpoint.
C18_SuccessMeansPersisted ==
    \A i \in 1..Len(plog) :
        plog[i].response.kind = "success" =>
            RowsAfter(Title(plog[i].endpoint), i)
                = plog[i].rows_before
                    \o BlockOf(plog[i].endpoint, i, plog[i].calls,
                               plog[i].response.analysis)

\* C19: the rows of a dedicated sheet only grow at the end: an invocation
\* whose save succeeded left the rows it found followed by exactly one block
\* (header row, empty row, one row per line of its result), any other
\* invocation left the rows as it found them, so the blocks of earlier
\* invocations stay, unchanged and in invocation order.
C19_AppendOnlyBlocks ==
    \A t \in Titles :
        /\ \A i \in 1..Len(plog) :
              Title(plog[i].endpoint) = t =>
                  RowsAfter(t, i)
                      = plog[i].rows_before
                          \o (IF plog[i].saved
                              THEN BlockOf(plog[i].endpoint, i, plog[i].calls,
                                           plog[i].response.analysis)
                              ELSE << >>)
        /\ InFlight(t) =>
              tabs[t].rows
                  = pat.rows_before
                      \o (IF pat.pc = "respond" /\ pat.saved
                          THEN BlockOf(pat.endpoint, Len(plog) + 1,
                                       pat.body.calls, pat.analysis)
                          ELSE << >>)
        /\ ~InFlight(t) /\ (\A i \in 1..Len(plog) : Title(plog[i].endpoint) # t)
              => tabs[t].rows \in { << >>, << OldRow >> }

\* C19 witness: two invocations of the same endpoint have saved their
\* blocks below the row an earlier run had left; the second block, of three
\* rows, follows the first, of four.
C19_Witness ==
    /\ Len(plog) = 2
    /\ ~PatActive
    /\ plog[1].endpoint = "tree" /\ plog[2].endpoint = "tree"
    /\ plog[1].saved /\ plog[2].saved
    /\ plog[1].response.analysis = << "a", "\n", "b" >>
    /\ plog[2].response.analysis = << >>
    /\ Len(tabs[Title("tree")].rows) = 1 + 4 + 3
    /\ tabs[Title("tree")].rows[1] = OldRow
    /\ tabs[Title("patterns")].rows = << OldRow >>

\* ------------------------------------------------------------ C22 .. C24

\* The cells a step changes.
ChangedCells == { rc \in DOMAIN cells : cells'[rc] # cells[rc] }

\* The column ranges one write of a job may touch: G:O, P:V and O in
\* enhanced mode, B:E and F in FAQ mode.
WriteRanges(endpoint) ==
    IF endpoint = "analyze" THEN { 7..15, 16..22, {15} } ELSE { 2..5, {6} }

\* C22: a step of a job changes cells only inside one of the fixed column
\* ranges of its mode (G:O, P:V, O alone in enhanced mode, all within G..V;
\* B:E and F in FAQ mode, all within B..F) and only in the row its request
\* addresses; every other cell keeps its value and no row disappears.
C22_WritesOnlyOwnRanges ==
    [][ /\ DOMAIN cells' = DOMAIN cells
        /\ ChangedCells # {} =>
              \E j \in JobIds :
                  /\ job'[j] # job[j]
                  /\ \E range \in WriteRanges(req[j].endpoint) :
                        ChangedCells \subseteq { req[j].row } \X range ]_vars

\* C22 witness: an /analyze job and its error marker have changed row 3 in
\* columns G to O only; the other row and the other columns are as before.
C22_Witness ==
    \E j \in JobIds :
        /\ Done(j)
        /\ req[j].endpoint = "analyze"
        /\ req[j].row = 3
        /\ Ev("update_workflow", TRUE) \in Events(j)
        /\ Ev("error_marker", TRUE) \in Events(j)
        /\ { rc \in DOMAIN cells : cells[rc] # before[j][rc] } = {3} \X (7..15)

\* The column that receives "Completed": O in enhanced mode, E in FAQ mode.
CompletedColumn(endpoint) == IF endpoint = "analyze" THEN 15 ELSE 5

IsErrorMarker(v) == v # << >> /\ v[1] = "ERROR: "

\* C23: the error marker is written to the cell that receives "Completed"
\* on success, so no row shows a "Completed" status and an "ERROR: ..."
\* marker at the same time.
C23_OneStatusCell ==
    /\ \A j \in JobIds :
          Ev("error_marker", TRUE) \in Events(j) /\ NoLaterWriter(j) =>
              IsErrorMarker(cells[<< req[j].row, CompletedColumn(req[j].endpoint) >>])
    /\ \A r \in RowNumbers :
          ~ /\ \E c \in Columns : cells[<< r, c >>] = << "Completed" >>
            /\ \E c \in Columns : IsErrorMarker(cells[<< r, c >>])

\* C24: for an /analyze job that is the only writer of its row: if column O
\* holds "Completed" when the job has returned, the job returned success and
\* wrote both the workflow range and the decision range; a job that returned
\* an error does not leave "Completed" in column O.
C24_CompletedMeansSuccess ==
    \A j \in JobIds :
        ( /\ Done(j)
          /\ req[j].endpoint = "analyze"
          /\ \A k \in JobIds : k # j => job[k].pc = "idle" )
        => /\ cells[<< req[j].row, 15 >>] = << "Completed" >> =>
                 /\ job[j].response.kind = "success"
                 /\ Ev("update_workflow", TRUE) \in Events(j)
                 /\ Ev("update_decision", TRUE) \in Events(j)
           /\ job[j].response.kind = "error" =>
                 cells[<< req[j].row, 15 >>] # << "Completed" >>

\* ------------------------------------------------------------ C27 .. C29

\* The stages that come before the upload.
BeforeUpload ==
    { "download", "split", "transcribe_left", "transcribe_right",
      "reconstruct", "extract", "parse" }

\* The writes of a field group to the row.
FieldGroupWrites == { "update_workflow", "update_decision", "update_faq" }

\* The calls of the datastore stage of a job.
DatastoreCalls ==
    FieldGroupWrites \cup { "sheet_creds", "get_metadata", "append_columns" }

\* C27: the upload is invoked only after download, split, both
\* transcriptions, reconstruct, extract and parse have succeeded; a field
\* group is written only after the upload of the job succeeded; a failed
\* datastore call leaves the uploaded transcript in the archive, and a job
\* whose upload failed writes no field group.
C27_UploadBetweenParseAndWrites ==
    \A j \in JobIds :
        /\ \A k \in 1..Len(trace[j]) :
              trace[j][k].op = "upload" =>
                  \A op \in BeforeUpload :
                      \E i \in 1..(k - 1) : trace[j][i] = Ev(op, TRUE)
        /\ \A k \in 1..Len(trace[j]) :
              trace[j][k].op \in FieldGroupWrites =>
                  \E i \in 1..(k - 1) : trace[j][i] = Ev("upload", TRUE)
        /\ (\E op \in DatastoreCalls : Ev(op, FALSE) \in Events(j)) =>
              /\ Uploads(j) = 1
              /\ \E i \in 1..Len(drive) :
                    drive[i] = [ job |-> j, link |-> << "webViewLink", ToString(j) >> ]
        /\ Ev("upload", FALSE) \in Events(j) =>
              /\ \A op \in FieldGroupWrites : ~Called(j, op)
              /\ Uploads(j) = 0
              /\ NoLaterWriter(j) =>
                    \A c \in Columns :
                        cells[<< req[j].row, c >>] # before[j][<< req[j].row, c >>]
                            => c = ErrorColumn(j)

\* C27 witness: a returned job whose workflow write failed after its upload;
\* the transcript is in the archive.
C27_Witness ==
    \E j \in JobIds :
        /\ Done(j)
        /\ Ev("upload", TRUE) \in Events(j)
        /\ Ev("update_workflow", FALSE) \in Events(j)
        /\ Uploads(j) = 1
        /\ job[j].response.kind = "error"

\* The descriptor is empty or lacks a required field.
IncompleteDescriptor(r) ==
    \/ r.json = "null"
    \/ r.json = "object" /\
          \E f \in { "file_url", "file_token", "sheet_id", "sheet_name",
                     "row_number", "transcript_folder_id", "file_name" } :
              f \notin r.keys

\* Job j has invoked no stage and has no temporary file.
NothingInvoked(j) ==
    /\ \A op \in PipelineOps : ~Called(j, op)
    /\ Uploads(j) = 0
    /\ FilesOf(j) = {}
    /\ job[j].pc \notin { "download", "split", "transcribe_left",
                          "transcribe_right", "reconstruct", "extract",
                          "parse", "upload" }

\* C28: a job whose descriptor is empty or lacks one of the seven required
\* fields returns an error response with status 500, without invoking
\* retriever, splitter, transcriber, generative service or upload and
\* without creating a temporary file.
C28_IncompleteDescriptorRejected ==
    \A j \in JobIds :
        job[j].pc # "idle" /\ IncompleteDescriptor(req[j]) =>
            /\ NothingInvoked(j)
            /\ Done(j) => /\ job[j].response.kind = "error"
                          /\ job[j].response.code = 500

\* C28 as amended: the same for every descriptor that is not a test request
\* (test = true); a test request is answered with success before the
\* required fields are looked at, also without invoking any stage.
C28_IncompleteRejectedUnlessTest ==
    \A j \in JobIds :
        job[j].pc # "idle" /\ IncompleteDescriptor(req[j]) =>
            /\ NothingInvoked(j)
            /\ Done(j) =>
                  IF req[j].test
                  THEN job[j].response.kind = "success"
                  ELSE /\ job[j].response.kind = "error"
                       /\ job[j].response.code = 500
                       /\ job[j].response.message # Empty

\* C28 witness: a descriptor that lacks only file_name has been answered
\* with the error that names the field.
C28_Witness ==
    \E j \in JobIds :
        /\ Done(j)
        /\ req[j].json = "object"
        /\ ~req[j].test
        /\ req[j].keys = RequiredKeys \ { "file_name" }
        /\ job[j].response.message = << "Missing required field: ", "file_name" >>
        /\ trace[j] \in { << >>, << Ev("error_marker", TRUE) >>,
                          << Ev("error_marker", FALSE) >> }

\* C29: the column count of a found sheet changes only by an append of
\* exactly 22 - c columns to a sheet of c < 22 columns, made by a job that
\* has written no range yet, so that the sheet has exactly 22 columns
\* afterwards and a sheet of 22 or more columns is never resized; whenever
\* the workflow range of a found sheet has been attempted or the decision
\* range P:V has been written, the sheet has at least 22 columns.
C29_ColumnsExtendedTo22 ==
    /\ [][ columnCount' # columnCount =>
              /\ sheet_exists
              /\ columnCount < 22
              /\ columnCount' = 22
              /\ \E j \in JobIds :
                    /\ job'[j] # job[j]
                    /\ job[j].current_columns = columnCount
                    /\ \A op \in FieldGroupWrites : ~Called(j, op) ]_vars
    /\ [](\A j \in JobIds :
              /\ sheet_exists /\ Called(j, "update_workflow") => columnCount >= 22
              /\ Ev("update_decision", TRUE) \in Events(j) => columnCount >= 22)

\* C29 witness: a sheet of 15 columns was extended by a job that then wrote
\* both ranges; the sheet has 22 columns.
C29_Witness ==
    \E j \in JobIds :
        /\ Done(j)
        /\ job[j].current_columns = 15
        /\ Ev("append_columns", TRUE) \in Events(j)
        /\ Ev("update_decision", TRUE) \in Events(j)
        /\ columnCount = 22

\* ------------------------------------------------------------ C26

\* What group 1 of the pattern of field f captured, trimmed.
Captured(text, f) == Strip(GroupAt(text, SearchPos(text, f)))

\* A value without its one pair of enclosing brackets, when it has one.
PairStripped(v) ==
    IF Len(v) >= 2 /\ v[1] = "[" /\ v[Len(v)] = "]"
    THEN SubSeq(v, 2, Len(v) - 1)
    ELSE v

\* C26: the value the parser stores for a located field is the captured
\* value without one pair of enclosing brackets when it both starts with
\* "[" and ends with "]", and the captured value itself otherwise: a lone
\* leading "[" or trailing "]" stays, and inner brackets stay.
C26_StripsOnlyAPair ==
    parse_pc = "parsed" =>
        \A f \in AllKeys :
            SearchPos(analysis_text, f) # 0 =>
                all_fields_of(analysis_text)[f]
                    = PairStripped(Captured(analysis_text, f))

\* ------------------------------------------------------------ C30

AloneFields(j) ==
    IF req[j].endpoint = "analyze"
    THEN parse_enhanced_analysis(ThreadAnswer(j))
    ELSE << parse_faq_analysis(ThreadAnswer(j)) >>

\* Whether a call of thread j's own job failed before its except block.
OwnFailure(j) == \E e \in Events(j) : e.op # "error_marker" /\ ~e.ok

\* What thread j's job leaves in column c of its row when it runs alone
\* with the outcomes its own calls had: the field groups it wrote, the
\* marker of its own error, the old content elsewhere.
AloneCell(j, c) ==
    LET wrote(op) == Ev(op, TRUE) \in Events(j)
        link == IF wrote("upload") THEN Link(j) ELSE Empty
    IN
    IF wrote("error_marker") /\ c = ErrorColumn(j)
    THEN ErrorMarker(job[j].error_msg)
    ELSE IF req[j].endpoint = "analyze"
    THEN IF wrote("update_workflow") /\ c \in ColG..ColO
         THEN IF c = ColO THEN Completed
              ELSE IF c = ColO - 1 THEN link
              ELSE AloneFields(j)[1][WorkflowFieldNames[c - ColG + 1]]
         ELSE IF wrote("update_decision") /\ c \in ColP..ColV
         THEN AloneFields(j)[2][DecisionFieldNames[c - ColP + 1]]
         ELSE Old
    ELSE IF wrote("update_faq") /\ c \in ColB..ColE
         THEN << AloneFields(j)[1].FAQ_ITEMS, AloneFields(j)[1].TOTAL_ITEMS,
                 AloneFields(j)[1].NOTES, Completed >>[c - ColB + 1]
         ELSE Old

\* The response thread j's job gives when it runs alone with the outcomes
\* its own calls had.
AloneResponse(j) ==
    IF OwnFailure(j) THEN ErrorResponse(job[j].error_msg)
    ELSE SuccessResponse(Link(j), AloneFields(j))

\* A step of thread j's handler writes only cells of the row its request
\* addresses and removes only temporary files of its own job.
StepStaysInOwnRow ==
    \A j \in ThreadIds :
        job'[j] # job[j] =>
            /\ ChangedCells \subseteq { ThreadRow(j) } \X Columns
            /\ \A f \in files \ files' : f[1] = j

\* A finished thread's row and response are those of its job run alone.
FinishedAsAlone ==
    \A j \in ThreadIds :
        Done(j) =>
            /\ \A c \in Columns : cells[<< ThreadRow(j), c >>] = AloneCell(j, c)
            /\ job[j].response = AloneResponse(j)

\* C21: jobs processed concurrently on distinct rows do not disturb each
\* other: under every interleaving of the handlers' steps each job writes
\* only cells of its own row and removes only its own temporary files, and
\* once a job has finished its row and its response are what the job
\* produces when it runs alone.
C21_ConcurrentJobsIsolated ==
    /\ [][StepStaysInOwnRow]_vars
    /\ [](FinishedAsAlone)

\* Two handlers that overlapped (both read 15 columns before either
\* appended, so the grid grew twice) and both wrote their rows and
\* finished with success.
C21_Witness ==
    /\ Done(1) /\ Done(2)
    /\ columnCount = 29
    /\ job[1].response.kind = "success"
    /\ job[2].response.kind = "success"
    /\ FilesOf(1) = {} /\ FilesOf(2) = {}

\* ------------------------------ concurrent cross-call invocations (C25)

\* The rows `block` stand one after the other somewhere in `rows`.
ContainsBlock(rows, block) ==
    \E k \in 0..(Len(rows) - Len(block)) :
        SubSeq(rows, k + 1, k + Len(block)) = block

\* C25: of the concurrent pattern-analysis or decision-tree invocations
\* that started with the dedicated sheet absent, every one that has
\* returned has returned success, its sheet exists, and its block of rows
\* is in the sheet, whatever happened to its create attempt.
C25_EveryBlockAppended ==
    \A i \in ThreadIds :
        pat[i].pc = "done" =>
            /\ pat[i].response.kind = "success"
            /\ tabs[Title(pat[i].endpoint)].exists
            /\ ContainsBlock(tabs[Title(pat[i].endpoint)].rows, thread_values(i))

====
